---- MODULE Spec2Model ----
(***************************************************************************)
(* Playback orchestration engine of DO-DREAM (fe_app TTSService).          *)
(*                                                                         *)
(* Two revisions of the service are in the repository and both are         *)
(* modelled; the variable rev says which one a behaviour runs:             *)
(*   "rn"   src/fe_app/src/services/ttsService.ts  (react-native-tts)      *)
(*   "expo" src/unnamed/part_009                   (expo-speech)           *)
(*                                                                         *)
(* JavaScript is single threaded: every action below is one run-to-        *)
(* completion slice of the code, from a call or a resumed await up to the  *)
(* next await.  A native call takes effect on the engine when it is issued *)
(* and its promise resolves in a later slice; engine events travel to JS   *)
(* through the FIFO inflight.                                              *)
(***************************************************************************)
EXTENDS Integers, Sequences, FiniteSets, Bags, TLC

VARIABLES
  rev,                  \* which revision of the service runs
  platform,             \* Platform.OS
  sections,             \* this.sections
  currentSectionIndex,  \* this.currentSectionIndex
  status,               \* this.status
  options,              \* this.options (rate, pauseSettings, host callbacks)
  playMode,             \* this.playMode
  currentRepeatCount,   \* this.currentRepeatCount
  targetRepeatCount,    \* this.targetRepeatCount
  speakToken,           \* this.speakToken
  pauseAfterTimer,      \* this.pauseAfterTimer and the callback it schedules
  isTtsInitialized,     \* this.isTtsInitialized
  retryCount,           \* this.retryCount
  globalListeners,      \* the constructor's tts-finish / tts-error listeners are registered
  startListener,        \* the constructor's tts-start listener is registered
  tasks,                \* suspended async calls, in order of creation
  engine,               \* utterances queued in the native engine, head is spoken
  inflight,             \* engine events emitted but not yet delivered to JS
  fired,                \* host callbacks fired by the last step, in order
  act,                  \* label of the last step
  scen,                 \* which commands were issued since initialize
  log,                  \* speaks and host callbacks since initialize (kept while scen is tracked)
  lastBump,             \* which operation produced the current token value
  decided,              \* the play-mode decision run by the last step, if any
  pausedQuiet,          \* the last command was a pause() of a section being spoken
  faults,               \* number of failures the engine has produced
  spoken,               \* the tokens of the speaks issued so far, one entry per speak
  guard,                \* the player screen's autoplay timers: the run in progress
  screen,               \* the player screen's play/pause trigger and its handler
  asr,                  \* the ASRService object, the recognizer and its events in flight
  provider              \* the voice-command state of TriggerProvider

vars == <<rev, platform, sections, currentSectionIndex, status, options, playMode,
          currentRepeatCount, targetRepeatCount, speakToken, pauseAfterTimer,
          isTtsInitialized, retryCount, globalListeners, startListener, tasks,
          engine, inflight, fired, act, scen, log, lastBump, decided, pausedQuiet,
          faults, spoken, guard, screen, asr, provider>>

----------------------------------------------------------------------------
(* Bounds *)

MaxToken == 3        \* the host issues commands while speakToken < MaxToken
MaxFaults == 1       \* the engine fails at most this many times
MaxTasks == 2        \* user commands are accepted while fewer calls are suspended
MaxRepeat == 3       \* largest repeatCount passed to initialize / setPlayMode

----------------------------------------------------------------------------
(* Program constants and input domains *)

maxRetry == 2
maxRetries == 2      \* ensureAutoPlay of the player screen, screen reader on
autoPlayMax == 3     \* the autoplay timer of the mount effect, screen reader on

Undefined == -1      \* an absent numeric option

defaultPauseSettings ==
  [heading |-> 1500, paragraph |-> 800, formula |-> 1200,
   imageDescription |-> 1000, default |-> 500]

SecA == [type |-> "heading", text |-> "A"]
SecB == [type |-> "paragraph", text |-> "B"]
SectionLists == {<<SecA>>, <<SecA, SecB>>}

PlayModes == {"single", "continuous", "repeat"}
Rates == {200}                       \* rates in percent passed to setRate
Pitches == {150}                     \* pitches in percent passed to setPitch
Voices == {"ko-kr-x-ism"}            \* voice ids passed to setVoice
PauseInputs == {defaultPauseSettings, [defaultPauseSettings EXCEPT !.paragraph = 0]}
\* <<playMode, repeatCount>> passed to initialize and to setPlayMode
InitModes == {<<"single", Undefined>>, <<"continuous", Undefined>>}
               \cup {<<"repeat", n>> : n \in 1..MaxRepeat}
SetModes == {<<m, Undefined>> : m \in PlayModes} \cup {<<"repeat", MaxRepeat>>}

NoTimer == [pending |-> FALSE, tok |-> 0, cause |-> 0, behind |-> 0]

\* no player screen is mounted on the service
NoGuard ==
  [on |-> FALSE, unmounted |-> FALSE, sr |-> FALSE, didAutoPlay |-> FALSE,
   pc |-> "off", kind |-> "none",
   resume |-> FALSE, retry |-> 0, attempts |-> 0, isPlaying |-> "unset",
   confirmed |-> FALSE]

\* no player screen has registered a play/pause trigger: useState(false) for
\* isPlaying, the trigger mode 'voice' and a null handler of TriggerProvider,
\* useRef(false) for isHandlingPlayPause
NoScreen ==
  [mounted |-> FALSE, sr |-> FALSE, isPlaying |-> FALSE, mode |-> "voice",
   registered |-> FALSE, closure |-> FALSE, isHandlingPlayPause |-> FALSE,
   pc |-> "idle", verify |-> "off", last |-> "none"]

\* new ASRService(): nothing recognized, no listener, autoRestart true; the
\* recognizer is idle.  starts counts the calls of ASR.start, halted tells
\* that stop() or abort() was called after the last start()
NoAsr ==
  [recognizing |-> FALSE, buffer |-> {}, autoRestart |-> TRUE, attached |-> FALSE,
   listeners |-> {}, calls |-> << >>, running |-> FALSE, events |-> << >>,
   starts |-> 0, halted |-> FALSE]

\* TriggerProvider before any voice command: useState('') for currentScreenId,
\* useState(false) for isVoiceCommandListening, asrOffRef null
NoProvider ==
  [currentScreenId |-> "", isVoiceCommandListening |-> FALSE, asrOff |-> FALSE,
   closure |-> "", invoked |-> << >>]

----------------------------------------------------------------------------
(* The state as one record, so that a slice of code is a composition of    *)
(* functions on it.                                                        *)

St ==
  [rev |-> rev, platform |-> platform, sections |-> sections,
   currentSectionIndex |-> currentSectionIndex, status |-> status,
   options |-> options, playMode |-> playMode,
   currentRepeatCount |-> currentRepeatCount,
   targetRepeatCount |-> targetRepeatCount, speakToken |-> speakToken,
   pauseAfterTimer |-> pauseAfterTimer, isTtsInitialized |-> isTtsInitialized,
   retryCount |-> retryCount, globalListeners |-> globalListeners,
   startListener |-> startListener, spoken |-> spoken,
   tasks |-> tasks, engine |-> engine, inflight |-> inflight,
   fired |-> fired, act |-> act, scen |-> scen, log |-> log,
   lastBump |-> lastBump, decided |-> decided, pausedQuiet |-> pausedQuiet,
   faults |-> faults, guard |-> guard, screen |-> screen,
   asr |-> asr, provider |-> provider, cause |-> 0]

Commit(s) ==
  /\ rev' = s.rev
  /\ platform' = s.platform
  /\ sections' = s.sections
  /\ currentSectionIndex' = s.currentSectionIndex
  /\ status' = s.status
  /\ options' = s.options
  /\ playMode' = s.playMode
  /\ currentRepeatCount' = s.currentRepeatCount
  /\ targetRepeatCount' = s.targetRepeatCount
  /\ speakToken' = s.speakToken
  /\ pauseAfterTimer' = s.pauseAfterTimer
  /\ isTtsInitialized' = s.isTtsInitialized
  /\ retryCount' = s.retryCount
  /\ globalListeners' = s.globalListeners
  /\ startListener' = s.startListener
  /\ spoken' = s.spoken
  /\ tasks' = s.tasks
  /\ engine' = s.engine
  /\ inflight' = s.inflight
  /\ fired' = s.fired
  /\ act' = s.act
  /\ scen' = s.scen
  /\ log' = IF s.scen = "other" THEN << >> ELSE s.log
  /\ lastBump' = s.lastBump
  /\ decided' = s.decided
  /\ pausedQuiet' = s.pausedQuiet
  /\ faults' = s.faults
  /\ guard' = s.guard
  /\ screen' = s.screen
  /\ asr' = s.asr
  /\ provider' = s.provider

\* the state a slice starts from: nothing fired yet, the label of the slice
Begin(a) == [St EXCEPT !.fired = << >>, !.act = a, !.decided = << >>]

\* a suspended call: where it resumes (pc) and the locals it captured
NoSection == [type |-> "", text |-> ""]
Task(pc, tok, pauseAfter, section, index, flag) ==
  [pc |-> pc, tok |-> tok, pauseAfter |-> pauseAfter, section |-> section,
   index |-> index, flag |-> flag, behind |-> 0, field |-> "", voice |-> ""]

\* a call suspended in a setTimeout delay: the engine events emitted before
\* the delay started reach JS before the delay elapses
Delayed(s, t) == [t EXCEPT !.behind = Len(s.inflight)]

Dec(n) == IF n > 0 THEN n - 1 ELSE 0

RemoveAt(seq, i) == [j \in 1..(Len(seq) - 1) |-> IF j < i THEN seq[j] ELSE seq[j + 1]]

\* a timer of the player screen is set: a new run of kind "ensure"
\* (ensureAutoPlay) or "initial" (the autoplay timer of the mount effect)
GuardTimer(g, kind) ==
  [g EXCEPT !.pc = "timer", !.kind = kind, !.resume = FALSE, !.retry = 0,
            !.attempts = 0, !.isPlaying = "unset", !.confirmed = FALSE]

\* the onSectionChange callback of the player screen calls ensureAutoPlay; the
\* model follows one run at a time
onSectionChange(s) ==
  IF s.guard.on /\ s.guard.pc \in {"off", "done"}
    THEN [s EXCEPT !.guard = GuardTimer(@, "ensure")]
    ELSE s

\* setIsPlaying(v) of the player screen; a screen that is not mounted has no
\* state to set
setIsPlaying(s, v) == IF s.screen.mounted THEN [s EXCEPT !.screen.isPlaying = v] ELSE s

\* this.options.onX?.(arg), with what the callbacks of the player screen do
Fire(s, cb, arg) ==
  IF s.options.hasCallbacks
    THEN LET s1 == [s EXCEPT !.fired = Append(@, <<cb, arg>>),
                             !.log = Append(@, [e |-> cb, text |-> "", i |-> arg])]
         IN CASE cb = "onSectionChange" -> onSectionChange(s1)
              [] cb = "onStart" -> setIsPlaying(s1, TRUE)
              [] cb \in {"onDone", "onSectionComplete", "onError"} -> setIsPlaying(s1, FALSE)
              [] OTHER -> s1
    ELSE s

\* Tts.speak / Speech.speak issued: the engine queues the utterance
EngineSpeak(s, tok, text, pauseAfter) ==
  [s EXCEPT !.engine = Append(@, [tok |-> tok, text |-> text,
                                  pauseAfter |-> pauseAfter, started |-> FALSE]),
            !.log = Append(@, [e |-> "speak", text |-> text, i |-> tok]),
            !.spoken = @ (+) SetToBag({tok})]

\* Tts.stop / Speech.stop issued: the engine drops what it speaks and queues
EngineStop(s) == [s EXCEPT !.engine = << >>]

----------------------------------------------------------------------------
(* Helpers of the service *)

bumpSpeakToken(s, by) ==
  [s EXCEPT !.speakToken = @ + 1, !.lastBump = by]

clearPauseAfterTimer(s) ==
  [s EXCEPT !.pauseAfterTimer = NoTimer]

\* Math.round(a / b) for a >= 0, b > 0
Round(a, b) == (2 * a + b) \div (2 * b)

\* the quotient taken as a product
scaledByRateInverted(basePause, rate) == Round(basePause * rate, 100)

\* Math.round(basePause / rate), the rate in percent
scaledByRate(basePause, rate) == Round(basePause * 100, rate)

\* a ?? b
Coalesce(a, b) == IF a = Undefined THEN b ELSE a

\* getPauseTime taking the default for an override of 0 (|| for ??)
getPauseTimeOr(s, sectionType) ==
  LET settings == s.options.pauseSettings
      d == defaultPauseSettings
      rate == IF s.options.rate = Undefined \/ s.options.rate = 0
                THEN 100 ELSE s.options.rate
      or(a, b) == IF a = Undefined \/ a = 0 THEN b ELSE a
      basePause == CASE sectionType = "heading" -> or(settings.heading, d.heading)
                     [] sectionType = "paragraph" -> or(settings.paragraph, d.paragraph)
                     [] sectionType = "formula" -> or(settings.formula, d.formula)
                     [] sectionType = "image_description" ->
                          or(settings.imageDescription, d.imageDescription)
                     [] OTHER -> or(settings.default, d.default)
  IN scaledByRate(basePause, rate)

getPauseTime(s, sectionType) ==
  LET settings == s.options.pauseSettings
      d == defaultPauseSettings
      rate == IF s.options.rate = Undefined \/ s.options.rate = 0
                THEN 100 ELSE s.options.rate
      basePause == CASE sectionType = "heading" -> Coalesce(settings.heading, d.heading)
                     [] sectionType = "paragraph" -> Coalesce(settings.paragraph, d.paragraph)
                     [] sectionType = "formula" -> Coalesce(settings.formula, d.formula)
                     [] sectionType = "image_description" ->
                          Coalesce(settings.imageDescription, d.imageDescription)
                     [] OTHER -> Coalesce(settings.default, d.default)
  IN scaledByRate(basePause, rate)

\* play() of ttsService.ts up to its first await (Tts.stop() in speakCurrent)
playRn(s, by) ==
  IF Len(s.sections) = 0 THEN s
  ELSE IF ~s.isTtsInitialized THEN s
  ELSE IF s.currentSectionIndex >= Len(s.sections)
    THEN [s EXCEPT !.status = "stopped"]
  ELSE
    LET currentSection == s.sections[s.currentSectionIndex + 1]
        pauseAfter == getPauseTime(s, currentSection.type)
        s1 == bumpSpeakToken([s EXCEPT !.status = "playing"], by)
        s2 == EngineStop(s1)
    IN [s2 EXCEPT !.tasks = Append(@, Delayed(s2, Task("speakCurrent", s1.speakToken,
                                              pauseAfter, currentSection, 0, FALSE)))]

\* play() of part_009 from the index check to Speech.speak
playExpoSpeak(s, currentSection, by) ==
  LET pauseAfter == getPauseTime(s, currentSection.type)
      s1 == bumpSpeakToken(s, by)
  IN EngineSpeak(s1, s1.speakToken, currentSection.text, pauseAfter)

playExpoFromIndexCheck(s, by) ==
  IF s.currentSectionIndex >= Len(s.sections)
    THEN [s EXCEPT !.status = "stopped"]
  ELSE
    LET currentSection == s.sections[s.currentSectionIndex + 1]
        s1 == [s EXCEPT !.status = "playing"]
    IN IF s.platform = "android"
         THEN [s1 EXCEPT !.tasks = Append(@, Task("availCheck", s1.speakToken, 0,
                                                  currentSection, 0, FALSE))]
         ELSE playExpoSpeak(s1, currentSection, by)

\* play() of part_009 up to its first await
playExpo(s, by) ==
  IF Len(s.sections) = 0 THEN s
  ELSE IF s.status = "playing"
    THEN [s EXCEPT !.tasks = Append(@, Task("dupCheck", 0, 0, NoSection, 0,
                                            Len(s.engine) > 0))]
  ELSE playExpoFromIndexCheck(s, by)

\* play() testing the index before the empty list
playIndexCheckFirst(s, by) ==
  IF s.currentSectionIndex >= Len(s.sections) THEN [s EXCEPT !.status = "stopped"]
  ELSE IF s.rev = "rn" THEN playRn(s, by) ELSE playExpo(s, by)

play(s, by) == IF s.rev = "rn" THEN playRn(s, by) ELSE playExpo(s, by)

\* moveToNextSection advancing without announcing the new section
moveToNextSectionSilent(s) ==
  IF s.currentSectionIndex < Len(s.sections) - 1
    THEN play([s EXCEPT !.currentSectionIndex = @ + 1], "play")
    ELSE Fire([s EXCEPT !.status = "idle"], "onDone", -1)

moveToNextSection(s) ==
  IF s.currentSectionIndex < Len(s.sections) - 1
    THEN LET s1 == [s EXCEPT !.currentSectionIndex = @ + 1]
             s2 == Fire(s1, "onSectionChange", s1.currentSectionIndex)
         IN play(s2, "play")
    ELSE Fire([s EXCEPT !.status = "idle"], "onDone", -1)

\* handleDone repeating once more than the target (<= for <)
handleDoneBodyExtraRepeat(s) ==
  CASE s.playMode = "single" ->
         Fire([s EXCEPT !.status = "idle"], "onSectionComplete", -1)
    [] s.playMode = "repeat" ->
         LET s1 == [s EXCEPT !.currentRepeatCount = @ + 1]
         IN IF s1.currentRepeatCount <= s1.targetRepeatCount
              THEN play(s1, "play")
              ELSE moveToNextSection([s1 EXCEPT !.currentRepeatCount = 0])
    [] OTHER -> moveToNextSection(s)

handleDoneBody(s) ==
  CASE s.playMode = "single" ->
         Fire([s EXCEPT !.status = "idle"], "onSectionComplete", -1)
    [] s.playMode = "repeat" ->
         LET s1 == [s EXCEPT !.currentRepeatCount = @ + 1]
         IN IF s1.currentRepeatCount < s1.targetRepeatCount
              THEN play(s1, "play")
              ELSE moveToNextSection([s1 EXCEPT !.currentRepeatCount = 0])
    [] OTHER -> moveToNextSection(s)

\* handleDone, noting which completion made it run and under which token
handleDone(s) ==
  handleDoneBody([s EXCEPT !.decided = <<s.cause, s.speakToken>>])

\* the part of waitForTtsFinish / of the onDone callback after the token check
afterFinish(s, token, pauseAfter) ==
  IF s.speakToken # token THEN s
  ELSE LET s1 == clearPauseAfterTimer(s)
       IN IF pauseAfter > 0
            THEN [s1 EXCEPT !.pauseAfterTimer =
                              [pending |-> TRUE, tok |-> token, cause |-> s.cause,
                               behind |-> Len(s.inflight)]]
            ELSE handleDone(s1)

\* the catch branch of waitForTtsFinish / the onError callback
afterError(s, token) ==
  IF s.speakToken # token THEN s
  ELSE Fire([s EXCEPT !.status = "idle"], "onError", -1)

----------------------------------------------------------------------------
(* Initial state: the module-level instance right after construction *)

Constructed ==
  /\ \/ rev = "rn" /\ platform = "android"   \* ttsService.ts reads Platform.OS only for setDucking
     \/ rev = "expo" /\ platform \in {"android", "ios"}
  /\ sections = << >>
  /\ currentSectionIndex = 0
  /\ status = "idle"
  /\ options = [rate |-> Undefined, pitch |-> Undefined, voice |-> "",
                pauseSettings |-> defaultPauseSettings, hasCallbacks |-> FALSE]
  /\ playMode = "single"
  /\ currentRepeatCount = 0
  /\ targetRepeatCount = 2
  /\ speakToken = 0
  /\ pauseAfterTimer = NoTimer
  /\ isTtsInitialized = FALSE
  /\ retryCount = 0
  /\ globalListeners = (rev = "rn")
  /\ startListener = (rev = "rn")
  /\ spoken = EmptyBag
  /\ tasks = << >>
  /\ engine = << >>
  /\ inflight = << >>
  /\ fired = << >>
  /\ act = "new"
  /\ scen = "other"
  /\ log = << >>
  /\ lastBump = "none"
  /\ decided = << >>
  /\ pausedQuiet = FALSE
  /\ faults = 0
  /\ asr = NoAsr
  /\ provider = NoProvider

Init == Constructed /\ guard = NoGuard /\ screen = NoScreen

----------------------------------------------------------------------------
(* Commands of the host *)

CanCall == Len(tasks) < MaxTasks

\* the scenario tracker: initialize; play; then pause; resume or setRate
BeforeSpeak == {"speakCurrent", "speakIssued", "dupCheck", "availCheck"}
Pending(pcs) == \E i \in 1..Len(tasks) : tasks[i].pc \in pcs
\* the utterance of the latest play() is in the engine
Speaking == \E i \in 1..Len(engine) : engine[i].tok = speakToken

\* the service is playing and the engine holds the speech of the latest play()
SpokenNow == status = "playing" /\ Speaking /\ ~Pending(BeforeSpeak)

\* the service is playing a speech it has issued
PlayingNow == status = "playing" /\ ~Pending(BeforeSpeak) /\ log # << >>

Cmd(name) ==
  LET s == Begin(name)
  IN [s EXCEPT !.scen = CASE s.scen = "init" /\ name = "play" -> "P"
                          [] s.scen = "P" /\ name = "pause" /\ SpokenNow -> "PP"
                          [] s.scen = "PP" /\ name = "resume" /\ tasks = << >> -> "PPR"
                          [] s.scen = "P" /\ name = "setRate" /\ PlayingNow -> "PR"
                          [] OTHER -> "other",
               !.pausedQuiet = name = "pause" /\ status = "playing"
                               /\ ~Pending(BeforeSpeak)]

\* stop() up to its await
stopSync(s, by, pc, index, flag) ==
  LET s1 == bumpSpeakToken(clearPauseAfterTimer(s), by)
      s2 == EngineStop(s1)
  IN [s2 EXCEPT !.tasks = Append(@, Task(pc, 0, 0, NoSection, index, flag))]

\* stop() after its await, leaving the repeat count as it was
stopTailKeepsRepeat(s) == [s EXCEPT !.status = "stopped"]

\* stop() after its await
stopTail(s) == [s EXCEPT !.status = "stopped", !.currentRepeatCount = 0]

\* goToSection() without its range check
goToSectionSyncUnchecked(s, index, autoPlay) ==
  stopSync(s, "goToSection", "gotoStop", index, autoPlay)

goToSectionSync(s, index, autoPlay) ==
  IF index < 0 \/ index >= Len(s.sections) THEN s
  ELSE stopSync(s, "goToSection", "gotoStop", index, autoPlay)

\* the mount effect of the player screen sets its autoplay timer after
\* initialize(); the timer's callback does nothing once didAutoPlayRef is set
autoPlayTimer(g) ==
  IF g.on /\ ~g.didAutoPlay THEN GuardTimer(g, "initial") ELSE g

\* initialize(sections, startIndex, {playMode, repeatCount, rate, pauseSettings, callbacks})
InitializeWith(secs, startIndex, mode, repeatCount, rate, pauseSettings) ==
  /\ CanCall
  /\ LET s0 == [Begin("initialize") EXCEPT !.scen = "init", !.log = << >>,
                                           !.pausedQuiet = FALSE,
                                           !.guard = autoPlayTimer(@)]
         s1 == [s0 EXCEPT !.sections = secs,
                          !.currentSectionIndex = startIndex,
                          !.playMode = mode,
                          !.targetRepeatCount = IF repeatCount = Undefined THEN 2
                                                                            ELSE repeatCount,
                          !.currentRepeatCount = 0,
                          !.options = [rate |-> Coalesce(rate, 100), pitch |-> 100,
                                       voice |-> "",
                                       pauseSettings |-> pauseSettings,
                                       hasCallbacks |-> TRUE],
                          !.status = "idle"]
         s2 == bumpSpeakToken(clearPauseAfterTimer(s1), "initialize")
     IN IF s2.rev = "rn" /\ s2.isTtsInitialized
          THEN Commit([s2 EXCEPT !.tasks = Append(@, Task("initApply", 0, 0, NoSection, 0, FALSE))])
          ELSE Commit([s2 EXCEPT !.retryCount = 0])

\* initialize without a rate option
Initialize(secs, startIndex, mode, repeatCount, pauseSettings) ==
  InitializeWith(secs, startIndex, mode, repeatCount, Undefined, pauseSettings)

Play ==
  /\ CanCall
  /\ Commit(play(Cmd("play"), "play"))

\* pause() without its status check
PauseUnguarded ==
  /\ CanCall
  /\ LET s == Cmd("pause")
     IN Commit([EngineStop(clearPauseAfterTimer(s)) EXCEPT
                  !.tasks = Append(@, Task("pauseStop", 0, 0, NoSection, 0, FALSE))])

Pause ==
  /\ CanCall
  /\ LET s == Cmd("pause")
     IN IF s.status = "playing"
          THEN Commit([EngineStop(clearPauseAfterTimer(s)) EXCEPT
                         !.tasks = Append(@, Task("pauseStop", 0, 0, NoSection, 0, FALSE))])
          ELSE Commit(s)

\* resume() without its status check
ResumeUnguarded ==
  /\ CanCall
  /\ Commit(play(Cmd("resume"), "play"))

Resume ==
  /\ CanCall
  /\ LET s == Cmd("resume")
     IN IF s.status = "paused" THEN Commit(play(s, "play")) ELSE Commit(s)

Stop ==
  /\ CanCall
  /\ Commit(stopSync(Cmd("stop"), "stop", "stop", 0, FALSE))

GoToSection(index, autoPlay) ==
  /\ CanCall
  /\ Commit(goToSectionSync(Cmd("goToSection"), index, autoPlay))

Previous ==
  /\ CanCall
  /\ LET s == Cmd("previous")
     IN IF s.currentSectionIndex > 0
          THEN Commit(goToSectionSync(s, s.currentSectionIndex - 1, TRUE))
          ELSE Commit(s)

\* next() wrapping around to the first section at the end of the list
NextSectionWraps ==
  /\ CanCall
  /\ LET s == Cmd("next")
     IN IF Len(s.sections) > 0
          THEN Commit(goToSectionSync(s, (s.currentSectionIndex + 1) % Len(s.sections), TRUE))
          ELSE Commit(s)

NextSection ==
  /\ CanCall
  /\ LET s == Cmd("next")
     IN IF s.currentSectionIndex < Len(s.sections) - 1
          THEN Commit(goToSectionSync(s, s.currentSectionIndex + 1, TRUE))
          ELSE Commit(s)

\* the callback setRate / setPitch / setVoice hand to updateAndReplay
applyOption(s, field, value, voice) ==
  CASE field = "rate" -> [s EXCEPT !.options.rate = value]
    [] field = "pitch" -> [s EXCEPT !.options.pitch = value]
    [] OTHER -> [s EXCEPT !.options.voice = voice]

\* updateAndReplay of ttsService.ts up to await Tts.stop()
updateAndReplay(s, field, value, voice) ==
  IF ~s.isTtsInitialized THEN applyOption(s, field, value, voice)
  ELSE LET s1 == EngineStop(bumpSpeakToken(clearPauseAfterTimer(s), "restart"))
       IN [s1 EXCEPT !.tasks = Append(@, [Task("uarStop", value, 0, NoSection,
                                               s.currentSectionIndex,
                                               s.status = "playing")
                                          EXCEPT !.field = field, !.voice = voice])]

\* setRate of part_009 up to await Speech.stop()
setRateExpo(s, rate) ==
  LET s1 == [s EXCEPT !.options.rate = rate]
  IN IF s1.status \in {"playing", "paused"}
       THEN LET s2 == EngineStop(bumpSpeakToken(clearPauseAfterTimer(s1), "restart"))
            IN [s2 EXCEPT !.tasks = Append(@, Task("rateStop", 0, 0, NoSection,
                                                   s1.currentSectionIndex,
                                                   s1.status = "playing"))]
       ELSE s1

SetRate(rate) ==
  /\ CanCall
  /\ LET s == Cmd("setRate")
     IN IF s.rev = "rn" THEN Commit(updateAndReplay(s, "rate", rate, ""))
                        ELSE Commit(setRateExpo(s, rate))

\* setPitch and setVoice exist in ttsService.ts only
SetPitch(pitch) ==
  /\ CanCall
  /\ rev = "rn"
  /\ Commit(updateAndReplay(Cmd("setPitch"), "pitch", pitch, ""))

SetVoice(voice) ==
  /\ CanCall
  /\ rev = "rn"
  /\ Commit(updateAndReplay(Cmd("setVoice"), "voice", 0, voice))

\* setPlayMode() leaving the repeat count as it was
SetPlayModeKeepsCount(mode, repeatCount) ==
  /\ CanCall
  /\ LET s == Cmd("setPlayMode")
     IN Commit([s EXCEPT !.playMode = mode,
                         !.targetRepeatCount = IF repeatCount = Undefined THEN @ ELSE repeatCount])

SetPlayMode(mode, repeatCount) ==
  /\ CanCall
  /\ LET s == Cmd("setPlayMode")
     IN Commit([s EXCEPT !.playMode = mode,
                         !.targetRepeatCount = IF repeatCount = Undefined THEN @ ELSE repeatCount,
                         !.currentRepeatCount = 0])

\* the assignments at the end of cleanup(), with speakToken set back to 0
cleanupResetAll(s) ==
  [s EXCEPT !.sections = << >>,
            !.currentSectionIndex = 0,
            !.status = "idle",
            !.options = [rate |-> Undefined, pitch |-> Undefined, voice |-> "",
                         pauseSettings |-> defaultPauseSettings, hasCallbacks |-> FALSE],
            !.currentRepeatCount = 0,
            !.speakToken = 0]

\* the assignments at the end of cleanup(): sections, index, status, options
\* and repeat count; speakToken is not among them
cleanupReset(s) ==
  [s EXCEPT !.sections = << >>,
            !.currentSectionIndex = 0,
            !.status = "idle",
            !.options = [rate |-> Undefined, pitch |-> Undefined, voice |-> "",
                         pauseSettings |-> defaultPauseSettings, hasCallbacks |-> FALSE],
            !.currentRepeatCount = 0]

\* cleanup(): part_009 runs it in one go, ttsService.ts awaits Tts.stop()
Cleanup ==
  /\ CanCall
  /\ LET s == Cmd("cleanup")
         s1 == EngineStop(bumpSpeakToken(clearPauseAfterTimer(s), "cleanup"))
     IN IF s.rev = "rn"
          THEN Commit([s1 EXCEPT !.tasks = Append(@, Task("cleanupStop", 0, 0, NoSection, 0, FALSE))])
          ELSE Commit(cleanupReset(s1))

----------------------------------------------------------------------------
(* Resumption of suspended calls *)

\* calls suspended in a call of the native module; the module runs its calls
\* in the order they were issued and their promises settle in that order
NativePcs == {"speakIssued", "speakRejected", "pauseStop", "stop", "gotoStop",
              "initApply", "uarStop", "uarApply", "rateStop", "dupCheck",
              "availCheck", "retryStop", "cleanupStop", "pauseStopAgain"}
InTurn(i) == \A j \in 1..(i - 1) : tasks[j].pc \notin NativePcs

\* calls suspended in a setTimeout delay, and the least length of the delay in
\* ms; a delay that started earlier and is not longer elapses first
DelayMs(pc) ==
  CASE pc = "speakCurrent" -> 80
    [] pc = "retryDelay" -> 120
    [] pc = "errFallback" -> 600
    [] OTHER -> 0
Elapsed(i) ==
  \A j \in 1..(i - 1) :
    DelayMs(tasks[j].pc) = 0 \/ DelayMs(tasks[j].pc) > DelayMs(tasks[i].pc)

\* the slice of tasks[i] with the task itself taken off the list
Resumed(i, a) == [Begin(a) EXCEPT !.tasks = RemoveAt(@, i)]

\* speakCurrent after stop / delay / applyTtsOptions: Tts.speak is issued
SpeakCurrent(i) ==
  /\ tasks[i].pc = "speakCurrent"
  /\ tasks[i].behind = 0
  /\ Elapsed(i)
  /\ \E ok \in {TRUE} \cup {FALSE : x \in {faults} \cap (0..(MaxFaults - 1))} :
       LET t == tasks[i]
           s == Resumed(i, "speakCurrent")
       IN IF ok
            THEN Commit([EngineSpeak(s, t.tok, t.section.text, t.pauseAfter) EXCEPT
                           !.tasks = Append(@, [t EXCEPT !.pc = "speakIssued"])])
            ELSE Commit([s EXCEPT !.tasks = Append(@, [t EXCEPT !.pc = "speakRejected"]),
                                  !.scen = "other", !.faults = @ + 1])

\* play() after speakCurrent resolved: onStart, then waitForTtsFinish
\* registers its tts-finish / tts-error listeners
SpeakIssued(i) ==
  /\ tasks[i].pc = "speakIssued"
  /\ InTurn(i)
  /\ LET t == tasks[i]
         s == Resumed(i, "speakIssued")
         s1 == Fire([s EXCEPT !.status = "playing"], "onStart", -1)
     IN Commit([s1 EXCEPT !.tasks = Append(@, [t EXCEPT !.pc = "wait"])])

\* play(): catch of a rejected speakCurrent
SpeakRejected(i) ==
  /\ tasks[i].pc = "speakRejected"
  /\ InTurn(i)
  /\ LET s == Resumed(i, "speakRejected")
     IN Commit(Fire([s EXCEPT !.status = "idle"], "onError", -1))

\* pause() after its engine stop settled: resolved, or rejected and caught.
\* The catch of ttsService.ts sets the status, the catch of part_009 first
\* awaits Speech.stop() once more
PauseStop(i) ==
  /\ tasks[i].pc = "pauseStop"
  /\ InTurn(i)
  /\ \E resolved \in BOOLEAN :
       IF resolved \/ rev = "rn"
         THEN Commit([Resumed(i, "pauseStop") EXCEPT !.status = "paused"])
         ELSE Commit([EngineStop(Resumed(i, "pauseCatch")) EXCEPT
                        !.tasks = Append(@, Task("pauseStopAgain", 0, 0, NoSection,
                                                 0, FALSE))])

\* pause() of part_009 after the Speech.stop() of its catch settled: resolved,
\* or rejected, and then the rejection leaves pause()
PauseStopAgain(i) ==
  /\ tasks[i].pc = "pauseStopAgain"
  /\ InTurn(i)
  /\ \E resolved \in BOOLEAN :
       IF resolved
         THEN Commit([Resumed(i, "pauseStop") EXCEPT !.status = "paused"])
         ELSE Commit(Resumed(i, "pauseThrew"))

\* stop() after its engine stop resolved
StopDone(i) ==
  /\ tasks[i].pc = "stop"
  /\ InTurn(i)
  /\ Commit(stopTail(Resumed(i, "stopDone")))

\* goToSection() playing whatever autoPlay says
GotoStopAlwaysPlays(i) ==
  /\ tasks[i].pc = "gotoStop"
  /\ InTurn(i)
  /\ LET t == tasks[i]
         s1 == stopTail(Resumed(i, "gotoStop"))
         s2 == [s1 EXCEPT !.currentSectionIndex = t.index, !.currentRepeatCount = 0]
         s3 == Fire(s2, "onSectionChange", t.index)
     IN Commit(play(s3, "play"))

\* goToSection() after await this.stop()
GotoStop(i) ==
  /\ tasks[i].pc = "gotoStop"
  /\ InTurn(i)
  /\ LET t == tasks[i]
         s1 == stopTail(Resumed(i, "gotoStop"))
         s2 == [s1 EXCEPT !.currentSectionIndex = t.index, !.currentRepeatCount = 0]
         s3 == Fire(s2, "onSectionChange", t.index)
     IN IF t.flag THEN Commit(play(s3, "play")) ELSE Commit(s3)

\* cleanup() of ttsService.ts after Tts.stop(): every listener is removed,
\* so a play() waiting for the end of its speech never returns
CleanupStop(i) ==
  /\ tasks[i].pc = "cleanupStop"
  /\ InTurn(i)
  /\ LET s == cleanupReset(Resumed(i, "cleanupStop"))
     IN Commit([s EXCEPT !.globalListeners = FALSE,
                         !.startListener = FALSE,
                         !.tasks = SelectSeq(@, LAMBDA w : w.pc # "wait"),
                         !.playMode = "single",
                         !.retryCount = 0])

\* initialize() of ttsService.ts after applyTtsOptions
InitApply(i) ==
  /\ tasks[i].pc = "initApply"
  /\ InTurn(i)
  /\ Commit([Resumed(i, "initApply") EXCEPT !.retryCount = 0])

\* updateAndReplay after await Tts.stop(): callback(), then applyTtsOptions
UarStop(i) ==
  /\ tasks[i].pc = "uarStop"
  /\ InTurn(i)
  /\ LET t == tasks[i]
         s == Resumed(i, "uarStop")
         s1 == applyOption([s EXCEPT !.status = "idle"], t.field, t.tok, t.voice)
     IN Commit([s1 EXCEPT !.tasks = Append(@, [t EXCEPT !.pc = "uarApply"])])

\* updateAndReplay forgetting that the session was playing
UarApplyNoReplay(i) ==
  /\ tasks[i].pc = "uarApply"
  /\ InTurn(i)
  /\ LET t == tasks[i]
         s == [Resumed(i, "uarApply") EXCEPT !.currentSectionIndex = t.index]
     IN Commit([s EXCEPT !.status = "idle"])

\* updateAndReplay after applyTtsOptions
UarApply(i) ==
  /\ tasks[i].pc = "uarApply"
  /\ InTurn(i)
  /\ LET t == tasks[i]
         s == [Resumed(i, "uarApply") EXCEPT !.currentSectionIndex = t.index]
     IN IF t.flag THEN Commit(play(s, "play"))
                  ELSE Commit([s EXCEPT !.status = "idle"])

\* setRate of part_009 after await Speech.stop()
RateStop(i) ==
  /\ tasks[i].pc = "rateStop"
  /\ InTurn(i)
  /\ LET t == tasks[i]
         s == [Resumed(i, "rateStop") EXCEPT !.status = "idle",
                                             !.currentSectionIndex = t.index]
     IN IF t.flag THEN Commit(play(s, "play"))
                  ELSE Commit([s EXCEPT !.status = "paused"])

\* play() of part_009 after the duplicate-call check (isSpeakingAsync, taken
\* when the call was issued)
DupCheck(i) ==
  /\ tasks[i].pc = "dupCheck"
  /\ InTurn(i)
  /\ LET t == tasks[i]
         s == Resumed(i, "dupCheck")
     IN IF t.flag THEN Commit(s) ELSE Commit(playExpoFromIndexCheck(s, "play"))

\* play() of part_009 after the Android availability check
AvailCheck(i) ==
  /\ tasks[i].pc = "availCheck"
  /\ InTurn(i)
  /\ Commit(playExpoSpeak(Resumed(i, "availCheck"), tasks[i].section, "play"))

\* the tts-error listener of the constructor after ensureVoiceFallback and
\* its delay: this.stop()
ErrFallback(i) ==
  /\ tasks[i].pc = "errFallback"
  /\ tasks[i].behind = 0
  /\ Elapsed(i)
  /\ Commit(stopSync(Resumed(i, "errFallback"), "retry", "retryStop", 0, FALSE))

\* ... after await this.stop(): delay(120)
RetryStop(i) ==
  /\ tasks[i].pc = "retryStop"
  /\ InTurn(i)
  /\ LET s == stopTail(Resumed(i, "retryStop"))
     IN Commit([s EXCEPT !.tasks = Append(@, Delayed(s, Task("retryDelay", 0, 0, NoSection,
                                                             0, FALSE)))])

\* ... after the delay: this.play()
RetryDelay(i) ==
  /\ tasks[i].pc = "retryDelay"
  /\ tasks[i].behind = 0
  /\ Elapsed(i)
  /\ Commit(play(Resumed(i, "retryDelay"), "play"))

----------------------------------------------------------------------------
(* The native engine *)

\* initializeTtsEngine: Tts.getInitStatus() resolved
EngineInit ==
  /\ rev = "rn"
  /\ ~isTtsInitialized
  /\ Commit([Begin("engineInit") EXCEPT !.isTtsInitialized = TRUE])

Event(type, u) == [type |-> type, tok |-> u.tok, pauseAfter |-> u.pauseAfter]

EngineStart ==
  /\ Len(engine) > 0
  /\ ~engine[1].started
  /\ LET s == Begin("engineStart")
     IN Commit([s EXCEPT !.engine[1].started = TRUE,
                         !.inflight = Append(@, Event("start", engine[1]))])

EngineFinish ==
  /\ Len(engine) > 0
  /\ engine[1].started
  /\ LET s == Begin("engineFinish")
     IN Commit([s EXCEPT !.engine = Tail(@),
                         !.inflight = Append(@, Event("finish", engine[1]))])

EngineError ==
  /\ Len(engine) > 0
  /\ faults < MaxFaults
  /\ LET s == Begin("engineError")
     IN Commit([s EXCEPT !.engine = Tail(@), !.scen = "other", !.faults = @ + 1,
                         !.inflight = Append(@, Event("error", engine[1]))])

----------------------------------------------------------------------------
(* Delivery of engine events and of the pause timer *)

RECURSIVE Settle(_, _, _)
\* the waits of waitForTtsFinish continue in the order they were registered
Settle(s, waiters, type) ==
  IF waiters = << >> THEN s
  ELSE LET w == Head(waiters)
           s1 == IF type = "finish" THEN afterFinish(s, w.tok, w.pauseAfter)
                                    ELSE afterError(s, w.tok)
       IN Settle(s1, Tail(waiters), type)

IsWaiter(t) == t.pc = "wait"

\* the tts-finish listener registered by the constructor
globalFinish(s) ==
  IF s.globalListeners
    THEN [Fire(s, "onSectionComplete", -1) EXCEPT !.status = "idle"]
    ELSE s

\* the tts-error listener registered by the constructor, up to its first await
globalError(s) ==
  IF ~s.globalListeners THEN s
  ELSE LET s1 == [s EXCEPT !.status = "idle"]
       IN IF s1.retryCount < maxRetry
            THEN [s1 EXCEPT !.retryCount = @ + 1,
                            !.tasks = Append(@, Delayed(s1, Task("errFallback", 0, 0,
                                                                 NoSection, 0, FALSE)))]
            ELSE Fire(s1, "onError", -1)

\* finishListener / errorListener of every pending waitForTtsFinish:
\* removeAllListeners('tts-finish'), removeAllListeners('tts-error'), settle
settleWaiters(s, type) ==
  LET waiters == SelectSeq(s.tasks, IsWaiter)
      rest == SelectSeq(s.tasks, LAMBDA t : ~IsWaiter(t))
  IN IF waiters = << >> THEN s
     ELSE Settle([s EXCEPT !.globalListeners = FALSE, !.tasks = rest], waiters, type)

deliverRn(s, ev) ==
  CASE ev.type = "start" -> IF s.startListener THEN [s EXCEPT !.status = "playing"] ELSE s
    [] ev.type = "finish" -> settleWaiters(globalFinish(s), "finish")
    [] OTHER -> LET waiters == SelectSeq(s.tasks, IsWaiter)
                    s1 == [s EXCEPT !.tasks = SelectSeq(@, LAMBDA t : ~IsWaiter(t))]
                    s2 == globalError(s1)
                IN settleWaiters([s2 EXCEPT !.tasks = s2.tasks \o waiters], "error")

\* the onStart / onDone / onError callbacks play() of part_009 hands to Speech.speak
deliverExpo(s, ev) ==
  CASE ev.type = "start" ->
         IF s.speakToken # ev.tok THEN s
         ELSE Fire([s EXCEPT !.status = "playing"], "onStart", -1)
    [] ev.type = "finish" -> afterFinish(s, ev.tok, ev.pauseAfter)
    [] OTHER -> afterError(s, ev.tok)

\* Tts.speak resolves when the utterance is queued, before the engine emits
\* an event of it: the call that issued the utterance continues first
SpeakReturned(ev) ==
  \A i \in 1..Len(tasks) : tasks[i].pc = "speakIssued" => tasks[i].tok # ev.tok

Deliver ==
  /\ Len(inflight) > 0
  /\ SpeakReturned(Head(inflight))
  /\ LET ev == Head(inflight)
         s == [Begin("deliver") EXCEPT
                 !.inflight = Tail(@),
                 !.cause = ev.tok,
                 !.tasks = [i \in 1..Len(tasks) |-> [tasks[i] EXCEPT !.behind = Dec(@)]],
                 !.pauseAfterTimer.behind = Dec(@)]
     IN IF rev = "rn" THEN Commit(deliverRn(s, ev)) ELSE Commit(deliverExpo(s, ev))

\* the setTimeout callback without its token check
TimerFireUnguarded ==
  /\ pauseAfterTimer.pending
  /\ pauseAfterTimer.behind = 0
  /\ LET s == [Begin("timer") EXCEPT !.pauseAfterTimer.pending = FALSE,
                                     !.cause = pauseAfterTimer.cause]
     IN Commit(handleDone(s))

\* the setTimeout callback of the pause after a section
TimerFire ==
  /\ pauseAfterTimer.pending
  /\ pauseAfterTimer.behind = 0
  /\ LET s == [Begin("timer") EXCEPT !.pauseAfterTimer.pending = FALSE,
                                     !.cause = pauseAfterTimer.cause]
     IN IF s.speakToken # pauseAfterTimer.tok THEN Commit(s) ELSE Commit(handleDone(s))

----------------------------------------------------------------------------

ResumeTask(i) ==
  \/ SpeakCurrent(i) \/ SpeakIssued(i) \/ SpeakRejected(i)
  \/ PauseStop(i) \/ PauseStopAgain(i) \/ StopDone(i) \/ GotoStop(i) \/ InitApply(i)
  \/ UarStop(i) \/ UarApply(i) \/ RateStop(i)
  \/ DupCheck(i) \/ AvailCheck(i)
  \/ ErrFallback(i) \/ RetryStop(i) \/ RetryDelay(i)
  \/ CleanupStop(i)

System ==
  \/ \E i \in 1..Len(tasks) : ResumeTask(i)
  \/ EngineInit
  \/ EngineStart
  \/ EngineFinish
  \/ EngineError
  \/ Deliver
  \/ TimerFire

----------------------------------------------------------------------------
(* The autoplay timers of the player screen.  PlayerScreen.tsx runs on      *)
(* ttsService.ts, the screen of part_004 on the expo-speech service.        *)

\* ttsService.isSpeaking(): the status in ttsService.ts, the engine in part_009
isSpeaking(s) == IF s.rev = "rn" THEN s.status = "playing" ELSE Len(s.engine) > 0

\* the callback of ensureAutoPlay's timer
EnsureCheck ==
  /\ guard.pc = "timer"
  /\ guard.kind = "ensure"
  /\ CanCall
  /\ LET s == Begin("guardCheck")
     IN IF s.rev = "rn"
          THEN IF ~isSpeaking(s) /\ s.status # "playing" /\ s.status # "paused"
                 THEN Commit([play(s, "play") EXCEPT !.guard.pc = "called",
                                                     !.guard.attempts = @ + 1])
                 ELSE Commit([s EXCEPT !.guard.pc = "done"])
          ELSE IF isSpeaking(s)
                 THEN Commit([s EXCEPT !.guard.pc = "done",
                                       !.guard.isPlaying = "playing",
                                       !.guard.confirmed = TRUE])
               ELSE IF s.status \in {"idle", "stopped", "paused"}
                 THEN Commit([s EXCEPT !.guard.resume = (s.status = "paused"),
                                       !.guard.pc = IF s.guard.sr THEN "retryDelay"
                                                                  ELSE "plainDelay"])
               ELSE Commit([s EXCEPT !.guard.pc = "done"])

\* the callback of the mount effect's autoplay timer
InitialFire ==
  /\ guard.pc = "timer"
  /\ guard.kind = "initial"
  /\ CanCall
  /\ LET s == Begin("guardInitial")
     IN IF s.rev = "rn"
          THEN Commit([play(s, "play") EXCEPT !.guard.pc = "called",
                                              !.guard.attempts = @ + 1])
        ELSE IF s.guard.sr
          THEN Commit([stopSync(s, "stop", "stop", 0, FALSE) EXCEPT
                         !.guard.pc = "stopCalled"])
          ELSE Commit([play(s, "play") EXCEPT !.guard.pc = "plainCalled",
                                              !.guard.attempts = @ + 1])

\* after the 300 ms delay: resume() when the check saw paused, else play()
GuardAttempt ==
  /\ guard.pc \in {"retryDelay", "plainDelay"}
  /\ CanCall
  /\ LET s == Begin("guardPlay")
         s1 == IF guard.pc = "retryDelay" /\ guard.resume
                 THEN IF s.status = "paused" THEN play(s, "play") ELSE s
                 ELSE play(s, "play")
     IN Commit([s1 EXCEPT !.guard.pc = IF guard.pc = "retryDelay" THEN "called"
                                                                  ELSE "plainCalled",
                          !.guard.attempts = @ + 1])

\* the awaited play(), resume() or stop() has returned
GuardReturned ==
  /\ guard.pc \in {"called", "plainCalled", "stopCalled"}
  /\ tasks = << >>
  /\ LET s == Begin("guardReturned")
         did == guard.didAutoPlay \/ guard.kind = "initial"
     IN CASE guard.pc = "stopCalled" -> Commit([s EXCEPT !.guard.pc = "retryDelay"])
          [] guard.pc = "plainCalled" ->
               Commit([s EXCEPT !.guard.pc = "plainVerify", !.guard.didAutoPlay = did])
          [] OTHER ->
               IF s.rev = "rn"
                 THEN Commit([s EXCEPT !.guard.pc = "done", !.guard.isPlaying = "playing",
                                       !.guard.didAutoPlay = did])
                 ELSE Commit([s EXCEPT !.guard.pc = "verifyDelay"])

\* the verification with a retry loop that has no bound
GuardVerifyUnbounded ==
  /\ guard.pc \in {"verifyDelay", "plainVerify"}
  /\ CanCall
  /\ LET s == Begin("guardVerify")
         did == guard.didAutoPlay \/ guard.kind = "initial"
     IN IF guard.pc = "plainVerify"
          THEN Commit([s EXCEPT !.guard.pc = "done",
                                !.guard.isPlaying = IF isSpeaking(s) THEN "playing"
                                                                     ELSE "notPlaying",
                                !.guard.confirmed = isSpeaking(s)])
        ELSE IF isSpeaking(s)
          THEN Commit([s EXCEPT !.guard.pc = "done", !.guard.isPlaying = "playing",
                                !.guard.confirmed = TRUE, !.guard.didAutoPlay = did])
        ELSE IF guard.kind = "initial"
               THEN Commit([stopSync(s, "stop", "stop", 0, FALSE) EXCEPT
                              !.guard.pc = "stopCalled", !.guard.retry = 0])
               ELSE Commit([s EXCEPT !.guard.pc = "retryDelay", !.guard.retry = 0])

\* after the 500 ms delay: is the engine speaking
GuardVerify ==
  /\ guard.pc \in {"verifyDelay", "plainVerify"}
  /\ CanCall
  /\ LET s == Begin("guardVerify")
         did == guard.didAutoPlay \/ guard.kind = "initial"
         max == IF guard.kind = "initial" THEN autoPlayMax ELSE maxRetries
     IN IF guard.pc = "plainVerify"
          THEN Commit([s EXCEPT !.guard.pc = "done",
                                !.guard.isPlaying = IF isSpeaking(s) THEN "playing"
                                                                     ELSE "notPlaying",
                                !.guard.confirmed = isSpeaking(s)])
        ELSE IF isSpeaking(s)
          THEN Commit([s EXCEPT !.guard.pc = "done", !.guard.isPlaying = "playing",
                                !.guard.confirmed = TRUE, !.guard.didAutoPlay = did])
        ELSE IF guard.retry + 1 < max
          THEN IF guard.kind = "initial"
                 THEN Commit([stopSync(s, "stop", "stop", 0, FALSE) EXCEPT
                                !.guard.pc = "stopCalled", !.guard.retry = @ + 1])
                 ELSE Commit([s EXCEPT !.guard.pc = "retryDelay", !.guard.retry = @ + 1])
          ELSE Commit([s EXCEPT !.guard.pc = "done", !.guard.isPlaying = "playing",
                                !.guard.retry = @ + 1, !.guard.didAutoPlay = did])

\* the cleanup of the screen's effects when it unmounts: registerPlayPause(null),
\* setMode("voice"), ttsService.stop() and clearTimeout(autoPlayTimer); the
\* timer of ensureAutoPlay is not cleared
Unmount ==
  /\ guard.on \/ screen.mounted
  /\ CanCall
  /\ LET s == stopSync(Cmd("unmount"), "stop", "stop", 0, FALSE)
         cleared == guard.kind = "initial" /\ guard.pc = "timer"
     IN Commit([s EXCEPT !.guard.on = FALSE, !.guard.unmounted = TRUE,
                         !.guard.pc = IF cleared THEN "off" ELSE @,
                         !.screen.mounted = FALSE, !.screen.registered = FALSE,
                         !.screen.mode = "voice"])

----------------------------------------------------------------------------
(* The play/pause trigger of the player screen.  The handler a trigger     *)
(* calls is the closure the screen registered: it holds the isPlaying of   *)
(* the render that created it.                                             *)

\* ttsService.pause() up to its await
pause(s) ==
  IF s.status = "playing"
    THEN [EngineStop(clearPauseAfterTimer(s)) EXCEPT
            !.tasks = Append(@, Task("pauseStop", 0, 0, NoSection, 0, FALSE))]
    ELSE s

\* the body of handlePlayPause up to its await: pause() when the closure's
\* isPlaying is set; else resume() when the service is paused (part_004 only)
\* and play() otherwise
toggle(s) ==
  IF s.screen.closure
    THEN [pause(s) EXCEPT !.screen.pc = "pauseCalled", !.screen.last = "pause"]
    ELSE [play(s, "play") EXCEPT
            !.screen.pc = "playCalled",
            !.screen.last = IF s.rev = "expo" /\ s.status = "paused" THEN "resume"
                                                                     ELSE "play"]

\* handlePlayPause of part_004 without the test of isHandlingPlayPause
handlePlayPauseReentrant(s) ==
  IF s.rev = "rn" THEN toggle(s)
  ELSE toggle([s EXCEPT !.screen.isHandlingPlayPause = TRUE])

\* handlePlayPause up to its await: PlayerScreen.tsx has no guard flag,
\* part_004 returns at once while isHandlingPlayPause is set
handlePlayPause(s) ==
  IF s.rev = "rn" THEN toggle(s)
  ELSE IF s.screen.isHandlingPlayPause THEN [s EXCEPT !.screen.last = "none"]
  ELSE toggle([s EXCEPT !.screen.isHandlingPlayPause = TRUE])

\* firePlayPause of GlobalVoiceTriggers, routed there in mode 'playpause':
\* the registered handler is called if there is one
FirePlayPause ==
  /\ CanCall
  /\ LET s == Cmd("trigger")
     IN IF s.screen.mode = "playpause" /\ s.screen.registered
          THEN Commit(handlePlayPause(s))
          ELSE Commit([s EXCEPT !.screen.last = "none"])

\* handlePlayPause after its await: setIsPlaying(false) after pause(), and so
\* does the catch of part_004; after play() setIsPlaying(true), which part_004
\* leaves to a 300 ms timer when the screen reader is off; its finally sets
\* the 500 ms timer that releases the flag
HandlerReturned ==
  /\ screen.pc \in {"pauseCalled", "playCalled"}
  /\ tasks = << >>
  /\ LET s == Begin("handlerReturned")
         s1 == IF screen.pc = "pauseCalled" THEN setIsPlaying(s, FALSE)
               ELSE IF rev = "rn" \/ screen.sr THEN setIsPlaying(s, TRUE)
               ELSE [s EXCEPT !.screen.verify = "timer"]
     IN Commit([s1 EXCEPT !.screen.pc = IF rev = "rn" THEN "idle" ELSE "release"])

\* the 500 ms timer of the finally block; the 300 ms timer set before it has
\* fired by then
ReleaseFlag ==
  /\ screen.pc = "release"
  /\ screen.verify # "timer"
  /\ Commit([Begin("release") EXCEPT !.screen.isHandlingPlayPause = FALSE,
                                     !.screen.pc = "idle"])

\* the 300 ms timer of handlePlayPause: is the engine speaking; if not, stop()
VerifyFire ==
  /\ screen.verify = "timer"
  /\ CanCall
  /\ LET s == Begin("verify")
     IN IF isSpeaking(s)
          THEN Commit([setIsPlaying(s, TRUE) EXCEPT !.screen.verify = "off"])
          ELSE Commit([stopSync(s, "stop", "stop", 0, FALSE) EXCEPT
                         !.screen.verify = "stopCalled"])

\* after stop() returned and 200 ms passed: play()
VerifyReplay ==
  /\ screen.verify = "stopCalled"
  /\ tasks = << >>
  /\ Commit([play(Begin("verifyPlay"), "play") EXCEPT !.screen.verify = "playCalled"])

\* 300 ms after that play() returned: setIsPlaying(await ttsService.isSpeaking())
VerifySettle ==
  /\ screen.verify = "playCalled"
  /\ tasks = << >>
  /\ LET s == Begin("verifySettle")
     IN Commit([setIsPlaying(s, isSpeaking(s)) EXCEPT !.screen.verify = "off"])

\* the trigger effect of part_004 depends on handlePlayPause, which is made
\* anew when isPlaying changes: React runs the effect's cleanup
\* (registerPlayPause(null), setMode("voice"), ttsService.stop()) and then the
\* effect, which registers the new closure.  The effect of PlayerScreen.tsx has
\* no dependencies and keeps the closure of the first render
Rerender ==
  /\ screen.mounted
  /\ rev = "expo"
  /\ screen.closure # screen.isPlaying
  /\ CanCall
  /\ speakToken <= MaxToken + 1
  /\ LET s == stopSync(Cmd("rerender"), "stop", "stop", 0, FALSE)
     IN Commit([s EXCEPT !.screen.closure = screen.isPlaying])

TriggerSteps ==
  \/ HandlerReturned
  \/ ReleaseFlag
  \/ VerifyFire
  \/ VerifyReplay
  \/ VerifySettle
  \/ Rerender

GuardSteps ==
  \/ EnsureCheck
  \/ InitialFire
  \/ GuardAttempt
  \/ GuardReturned
  \/ GuardVerify

\* A host that starts one session and drives it with play, then either pause
\* and resume or one setRate, each at any moment
ScenarioHost ==
  \/ /\ speakToken = 0
     /\ \E secs \in SectionLists, m \in InitModes, ps \in PauseInputs :
          \E startIndex \in 0..Len(secs) : Initialize(secs, startIndex, m[1], m[2], ps)
  \/ scen = "init" /\ Play
  \/ scen = "P" /\ Pause
  \/ scen = "PP" /\ Resume
  \/ scen = "P" /\ PlayingNow /\ \E rate \in Rates : SetRate(rate)

NextScenario == ScenarioHost \/ System

SpecScenario == Init /\ [][NextScenario]_vars

\* A host that issues any command on a two-section session, one at a time
ControlLists == {<<SecA, SecB>>}
ControlModes == {<<m, Undefined>> : m \in PlayModes}

\* the host issues commands while speakToken < MaxToken, and after that only
\* a resume(), next() or previous() that takes no new token; stop() and
\* setPlayMode() are issued once more at speakToken = MaxToken
Budget == speakToken < MaxToken

ControlCommand ==
  \/ \E secs \in ControlLists, m \in ControlModes, startIndex \in 0..2 :
       Budget /\ Initialize(secs, startIndex, m[1], m[2], defaultPauseSettings)
  \/ Budget /\ Play
  \/ Budget /\ Pause
  \/ Resume /\ (Budget \/ speakToken' = speakToken)
  \/ speakToken <= MaxToken /\ Stop
  \/ \E index \in -1..2, autoPlay \in BOOLEAN : Budget /\ GoToSection(index, autoPlay)
  \/ Previous /\ (Budget \/ speakToken' = speakToken)
  \/ NextSection /\ (Budget \/ speakToken' = speakToken)
  \/ \E rate \in Rates : Budget /\ SetRate(rate)
  \/ \E m \in SetModes : speakToken <= MaxToken /\ SetPlayMode(m[1], m[2])

\* the host awaits each command before it issues the next; a play() of the
\* react-native revision returns only when its speech has ended
HostReady == \A i \in 1..Len(tasks) : tasks[i].pc = "wait"

ControlHost == HostReady /\ ControlCommand

Next == ControlHost \/ System

\* A host that starts sessions, plays and stops at any moment
SupersedeHost ==
  \/ \E secs \in ControlLists, m \in ControlModes :
       speakToken <= MaxToken /\ Initialize(secs, 0, m[1], m[2], defaultPauseSettings)
  \/ speakToken <= MaxToken /\ Play
  \/ speakToken <= MaxToken /\ Stop

NextSupersede == SupersedeHost \/ System

SpecSupersede == Init /\ [][NextSupersede]_vars

Spec == Init /\ [][Next]_vars

\* A host that plays, pauses and stops one session and changes rate, pitch and
\* voice, one command at a time
OptionsHost ==
  \/ \E m \in ControlModes, startIndex \in 0..1 :
       speakToken = 0 /\ Initialize(<<SecA, SecB>>, startIndex, m[1], m[2], defaultPauseSettings)
  \/ Budget /\ Play
  \/ Budget /\ Pause
  \/ Budget /\ Stop
  \/ \E rate \in Rates : Budget /\ SetRate(rate)
  \/ \E pitch \in Pitches : Budget /\ SetPitch(pitch)
  \/ \E voice \in Voices : Budget /\ SetVoice(voice)

NextOptions == (HostReady /\ OptionsHost) \/ System

SpecOptions == Init /\ [][NextOptions]_vars

\* A host that opens and closes sessions: initialize, play, stop, a rate
\* change and cleanup, one command at a time
LifetimeBudget == speakToken <= MaxToken

LifetimeHost ==
  \/ \E m \in ControlModes, startIndex \in 0..1 :
       LifetimeBudget /\ Initialize(<<SecA, SecB>>, startIndex, m[1], m[2], defaultPauseSettings)
  \/ LifetimeBudget /\ Play
  \/ LifetimeBudget /\ Stop
  \/ \E rate \in Rates : LifetimeBudget /\ SetRate(rate)
  \/ LifetimeBudget /\ Cleanup

NextLifetime == (HostReady /\ LifetimeHost) \/ System

SpecLifetime == Init /\ [][NextLifetime]_vars

\* A host of a session in repeat mode, one command at a time: it plays, stops,
\* goes to a section (also one that does not exist), changes the mode, starts
\* a new session and cleans up; commands that take no token stay possible
\* at speakToken = MaxToken
RepeatHost ==
  \/ \E n \in {2, MaxRepeat} :
       Budget /\ Initialize(<<SecA, SecB>>, 0, "repeat", n, defaultPauseSettings)
  \/ Budget /\ Play
  \/ speakToken <= MaxToken /\ Stop
  \/ \E index \in -1..2, autoPlay \in BOOLEAN :
       GoToSection(index, autoPlay) /\ (Budget \/ speakToken' = speakToken)
  \/ \E m \in SetModes : speakToken <= MaxToken /\ SetPlayMode(m[1], m[2])
  \/ Budget /\ Cleanup

NextRepeat == (HostReady /\ RepeatHost) \/ System

SpecRepeat == Init /\ [][NextRepeat]_vars

\* A player screen: it is mounted with the screen reader on or off, before or
\* after its first autoplay, starts one session and lets the user play, pause
\* and go to the next section, until it unmounts
InitGuard ==
  /\ Constructed
  /\ \E sr \in BOOLEAN, did \in BOOLEAN :
       guard = [NoGuard EXCEPT !.on = TRUE, !.sr = sr, !.didAutoPlay = did]
  /\ screen = NoScreen

GuardBudget == speakToken <= MaxToken

GuardHost ==
  \/ \E m \in {"single", "continuous"} :
       /\ speakToken = 0
       /\ Initialize(<<SecA, SecB>>, 0, m, Undefined, defaultPauseSettings)
  \/ speakToken > 0 /\ Budget /\ Play
  \/ GuardBudget /\ Pause
  \/ Budget /\ NextSection
  \/ speakToken > 0 /\ Budget /\ Unmount

NextGuard == (HostReady /\ GuardHost) \/ System \/ GuardSteps

SpecGuard == InitGuard /\ [][NextGuard]_vars

\* A mounted player screen (the screen reader on or off in part_004) whose
\* trigger effect has run: it starts one session, the play/pause trigger fires
\* at any moment, and the screen unmounts
InitTrigger ==
  /\ Constructed
  /\ guard = NoGuard
  /\ \E sr \in BOOLEAN :
       /\ rev = "rn" => ~sr
       /\ screen = [NoScreen EXCEPT !.mounted = TRUE, !.sr = sr, !.mode = "playpause",
                                    !.registered = TRUE]

TriggerHost ==
  \/ /\ speakToken = 0
     /\ Initialize(<<SecA, SecB>>, 0, "single", Undefined, defaultPauseSettings)
  \/ speakToken > 0 /\ GuardBudget /\ FirePlayPause
  \/ speakToken > 0 /\ screen.mounted /\ GuardBudget /\ Unmount

NextTrigger == TriggerHost \/ System \/ TriggerSteps

SpecTrigger == InitTrigger /\ [][NextTrigger]_vars

----------------------------------------------------------------------------
(* Speech recognition: asrService.ts and the voice commands of             *)
(* TriggerProvider.  A recognized text is the set of the phrases it        *)
(* contains, written in Latin letters; the empty set is the empty text.    *)

\* t.includes(w): the phrase "ijeon hwamyeon" (previous screen) contains the
\* word "ijeon" (previous)
Includes(t, w) == w \in t \/ (w = "ijeon" /\ "ijeon hwamyeon" \in t)

parseVoiceCommand(raw) ==
  IF raw = {} THEN "null"
  ELSE IF Includes(raw, "dwiro") \/ Includes(raw, "ijeon hwamyeon") THEN "goBack"
  ELSE IF Includes(raw, "jilmun") THEN "openQuestion"
  ELSE IF Includes(raw, "kwijeu") THEN "openQuiz"
  ELSE IF Includes(raw, "daeum") THEN "next"
  ELSE IF Includes(raw, "ijeon") \/ Includes(raw, "apeuro") THEN "prev"
  ELSE IF Includes(raw, "jaesaeng") \/ Includes(raw, "ilsijeongji")
          \/ Includes(raw, "meomchwo") THEN "playPause"
  ELSE "null"

\* the texts the recognizer produces: nothing, "play", "previous screen" and
\* a phrase that is no command
Utterances == {{}, {"jaesaeng"}, {"ijeon hwamyeon"}, {"annyeong"}}

\* voiceHandlersRef after the screens called registerVoiceHandlers
voiceHandlers ==
  [Player |-> {"playPause", "next", "prev", "goBack"},
   Library |-> {"goBack", "openQuestion"}]

\* ASR.start(): the recognizer starts a session
ASRstart(s) == [s EXCEPT !.asr.running = TRUE, !.asr.starts = @ + 1]

\* ASR.stop() and ASR.abort(): a running session ends and the recognizer
\* emits 'end'
ASRstop(s) ==
  IF s.asr.running
    THEN [s EXCEPT !.asr.running = FALSE,
                   !.asr.events = Append(@, [type |-> "end", final |-> FALSE, text |-> {}])]
    ELSE s

attachEvents(s) == [s EXCEPT !.asr.attached = TRUE]
detachEvents(s) == [s EXCEPT !.asr.attached = FALSE]

\* asrService.stop(): ASR.stop() returns nothing, so the await and the
\* finally block that follow it run in the same turn
asrStop(s) ==
  LET s1 == [s EXCEPT !.asr.halted = TRUE]
  IN IF ~s1.asr.recognizing THEN s1
     ELSE detachEvents(ASRstop([s1 EXCEPT !.asr.recognizing = FALSE]))

\* asrService.abort()
asrAbort(s) ==
  detachEvents(ASRstop([s EXCEPT !.asr.halted = TRUE, !.asr.recognizing = FALSE]))

\* asrService.start(config) up to await ASR.requestPermissionsAsync()
asrStart(s, autoRestart, by) ==
  LET s1 == [s EXCEPT !.asr.halted = FALSE]
  IN IF s1.asr.recognizing THEN s1
     ELSE [s1 EXCEPT !.asr.autoRestart = autoRestart,
                     !.asr.calls = Append(@, [by |-> by])]

\* cleanupAsr(): the listener given to asrService.on() is removed
cleanupAsr(s) ==
  IF s.provider.asrOff
    THEN [s EXCEPT !.provider.asrOff = FALSE, !.asr.listeners = @ \ {"voice"}]
    ELSE s

\* the listener startVoiceCommandListening subscribes; currentScreenId is the
\* one of the render that made the callback
listener(s, raw, isFinal) ==
  IF ~isFinal \/ raw = {} THEN s
  ELSE LET s1 == cleanupAsr(asrStop([s EXCEPT !.provider.isVoiceCommandListening = FALSE]))
           key == parseVoiceCommand(raw)
           id == s.provider.closure
       IN IF key # "null" /\ id \in DOMAIN voiceHandlers /\ key \in voiceHandlers[id]
            THEN [s1 EXCEPT !.provider.invoked = Append(@, <<id, key>>)]
            ELSE s1

emit(s, text, isFinal) ==
  IF "voice" \in s.asr.listeners THEN listener(s, text, isFinal) ELSE s

onResult(s, e) ==
  IF e.text = {} THEN s
  ELSE IF e.final
    THEN LET b == s.asr.buffer \cup e.text
         IN emit([s EXCEPT !.asr.buffer = b], b, TRUE)
    ELSE emit(s, s.asr.buffer \cup e.text, FALSE)

\* onEnd: after maxSessionMs the buffer is cleared; the session is started
\* again when autoRestart is set
onEnd(s, rollover) ==
  IF ~s.asr.recognizing THEN s
  ELSE LET s1 == IF rollover THEN [s EXCEPT !.asr.buffer = {}] ELSE s
       IN IF s1.asr.autoRestart THEN ASRstart(s1) ELSE s1

onError(s) ==
  IF ~s.asr.recognizing THEN s
  ELSE IF s.asr.autoRestart THEN ASRstart(ASRstop(s)) ELSE s

\* ASR.requestPermissionsAsync() settled: denied, start() throws; granted, the
\* rest of start() runs, ASR.start() returning nothing
AsrPermission ==
  /\ asr.calls # << >>
  /\ \E granted \in BOOLEAN :
       LET s == [Begin("asrPermission") EXCEPT !.asr.calls = Tail(@)]
           by == Head(asr.calls).by
       IN IF granted
            THEN Commit([ASRstart(attachEvents([s EXCEPT !.asr.buffer = {}])) EXCEPT
                           !.asr.recognizing = TRUE])
          ELSE IF by = "voice"
            THEN Commit(cleanupAsr([s EXCEPT !.provider.isVoiceCommandListening = FALSE]))
          ELSE Commit(s)

\* the recognizer produces a result, ends its session or fails
AsrResult ==
  /\ asr.running
  /\ Len(asr.events) < MaxTasks
  /\ \E final \in BOOLEAN, text \in Utterances :
       /\ final \/ text = {"jaesaeng"}
       /\ Commit([Begin("asrResult") EXCEPT
                   !.asr.events = Append(@, [type |-> "result", final |-> final,
                                             text |-> text])])

AsrEnd ==
  /\ asr.running
  /\ Len(asr.events) < MaxTasks
  /\ asr.starts <= MaxToken
  /\ Commit(ASRstop(Begin("asrEnd")))

AsrError ==
  /\ asr.running
  /\ faults < MaxFaults
  /\ Commit([Begin("asrError") EXCEPT
               !.faults = @ + 1,
               !.asr.running = FALSE,
               !.asr.events = Append(@, [type |-> "error", final |-> FALSE, text |-> {}])])

\* an event of the recognizer reaches the handlers attachEvents subscribed
AsrDeliver ==
  /\ asr.events # << >>
  /\ LET e == Head(asr.events)
         s == [Begin("asrDeliver") EXCEPT !.asr.events = Tail(@)]
     IN IF ~asr.attached THEN Commit(s)
        ELSE CASE e.type = "result" -> Commit(onResult(s, e))
               [] e.type = "end" -> \E rollover \in BOOLEAN : Commit(onEnd(s, rollover))
               [] OTHER -> Commit(onError(s))

AsrSteps ==
  \/ AsrPermission
  \/ AsrResult
  \/ AsrEnd
  \/ AsrError
  \/ AsrDeliver

\* a screen that uses the service directly: start({autoRestart}), stop(), abort()
AsrStart(autoRestart) ==
  /\ Len(asr.calls) < MaxTasks
  /\ asr.starts < MaxToken
  /\ Commit(asrStart(Begin("asrStart"), autoRestart, "host"))

AsrStop == Commit(asrStop(Begin("asrStop")))

AsrAbort == Commit(asrAbort(Begin("asrAbort")))

AsrHost ==
  \/ \E autoRestart \in BOOLEAN : AsrStart(autoRestart)
  \/ AsrStop
  \/ AsrAbort

NextAsr == AsrHost \/ AsrSteps

\* asrService.ts belongs to the app of ttsService.ts
InitAsr == Init /\ rev = "rn"

SpecAsr == InitAsr /\ [][NextAsr]_vars

\* startVoiceCommandListening(): the listener it subscribes holds the
\* currentScreenId of the render that made the callback
startVoiceCommandListening(s) ==
  IF s.provider.isVoiceCommandListening THEN s
  ELSE LET s1 == cleanupAsr(s)
           s2 == [s1 EXCEPT !.asr.listeners = @ \cup {"voice"},
                            !.provider.asrOff = TRUE,
                            !.provider.closure = s.provider.currentScreenId,
                            !.provider.isVoiceCommandListening = TRUE]
       IN asrStart(s2, FALSE, "voice")

StartVoiceCommandListening ==
  /\ Len(asr.calls) < MaxTasks
  /\ asr.starts < MaxToken
  /\ Commit(startVoiceCommandListening(Begin("voiceStart")))

\* a screen that comes into focus names itself
SetCurrentScreenId(id) ==
  /\ provider.currentScreenId # id
  /\ Commit([Begin("setScreen") EXCEPT !.provider.currentScreenId = id])

VoiceHost ==
  \/ StartVoiceCommandListening
  \/ \E id \in DOMAIN voiceHandlers : SetCurrentScreenId(id)

NextVoice == VoiceHost \/ AsrSteps

SpecVoice == InitAsr /\ [][NextVoice]_vars

----------------------------------------------------------------------------
(* Observations used by the properties *)

SpeakLog == SelectSeq(log, LAMBDA x : x.e = "speak")
Count(cb) == Len(SelectSeq(log, LAMBDA x : x.e = cb))
SpokenTimes(text) == Len(SelectSeq(SpeakLog, LAMBDA x : x.text = text))
\* 0-based index of the section spoken first since initialize
FirstSpoken == (CHOOSE j \in 1..Len(sections) : sections[j].text = SpeakLog[1].text) - 1
Quiescent ==
  tasks = << >> /\ engine = << >> /\ inflight = << >> /\ ~pauseAfterTimer.pending
\* position in log of the k-th speak
RECURSIVE PosOfSpeak(_, _)
PosOfSpeak(k, from) ==
  IF log[from].e = "speak"
    THEN IF k = 1 THEN from ELSE PosOfSpeak(k - 1, from + 1)
    ELSE PosOfSpeak(k, from + 1)
HostActs == {"initialize", "play", "pause", "resume", "stop", "goToSection",
             "previous", "next", "setRate", "setPitch", "setVoice", "setPlayMode"}

----------------------------------------------------------------------------
(* Properties *)

\* C1: a finish or error event of a speech that stop() or initialize() has
\* superseded changes none of status, currentSectionIndex, currentRepeatCount
\* or the pending pause timer, and fires no host callback.
C1_StaleEventIsNoOp ==
  [][ ( /\ act' = "deliver"
        /\ Len(inflight) > 0
        /\ Head(inflight).type \in {"finish", "error"}
        /\ Head(inflight).tok = speakToken - 1
        /\ lastBump \in {"stop", "initialize"} )
      => ( /\ status' = status
           /\ currentSectionIndex' = currentSectionIndex
           /\ currentRepeatCount' = currentRepeatCount
           /\ pauseAfterTimer'.pending = pauseAfterTimer.pending
           /\ fired' = << >> ) ]_vars

\* C2: the play-mode decision (index advance, repeat, onDone) is only ever run
\* by the completion of the most recently started speak: the utterance whose
\* completion caused it carries the token that is current when it runs.
C2_OnlyLatestSpeakDecides ==
  decided # << >> => decided[1] = decided[2]

\* C3: after pause() of a section being spoken and until the next command,
\* currentSectionIndex does not change, no speak is issued, and once the
\* status is paused it stays paused.
C3_PauseHolds ==
  [][ (pausedQuiet /\ pausedQuiet' /\ act' \notin HostActs)
      => ( /\ currentSectionIndex' = currentSectionIndex
           /\ Len(engine') <= Len(engine)
           /\ (status = "paused" => status' = "paused") ) ]_vars

C5_RepeatSpeaksNTimes ==
  (scen = "P" /\ playMode = "repeat") =>
    /\ \A j \in 1..Len(sections) : SpokenTimes(sections[j].text) <= targetRepeatCount
    /\ Count("onDone") <= 1
    /\ (Quiescent /\ SpeakLog # << >>) =>
         /\ status = "idle"
         /\ currentRepeatCount = 0
         /\ Count("onDone") = 1
         /\ \A j \in 1..Len(sections) :
              SpokenTimes(sections[j].text) =
                IF j - 1 >= FirstSpoken THEN targetRepeatCount ELSE 0

C5_Witness ==
  /\ scen = "P" /\ playMode = "repeat" /\ targetRepeatCount = 3
  /\ Len(sections) = 1 /\ Quiescent /\ Len(SpeakLog) = 3
  /\ status = "idle" /\ Count("onDone") = 1

\* C6: in continuous mode, initialize; play() and natural completions speak
\* the sections from the start index in index order, each once, with
\* onSectionChange(i) fired before section i is spoken on every advance, and
\* end idle with onDone fired once after the last section.
C6_ContinuousInOrder ==
  (scen = "P" /\ playMode = "continuous" /\ SpeakLog # << >>) =>
    /\ \A k \in 1..Len(SpeakLog) :
         /\ FirstSpoken + k <= Len(sections)
         /\ SpeakLog[k].text = sections[FirstSpoken + k].text
         /\ k > 1 => \E p \in (PosOfSpeak(k - 1, 1) + 1)..(PosOfSpeak(k, 1) - 1) :
                       log[p].e = "onSectionChange" /\ log[p].i = FirstSpoken + k - 1
    /\ Count("onDone") <= 1
    /\ Count("onDone") = 1 => Len(SpeakLog) = Len(sections) - FirstSpoken
    /\ Quiescent =>
         /\ status = "idle"
         /\ Count("onDone") = 1
         /\ log[Len(log)].e = "onDone"

C6_Witness ==
  /\ scen = "P" /\ playMode = "continuous" /\ Len(sections) = 2
  /\ Quiescent /\ Len(SpeakLog) = 2 /\ Count("onDone") = 1 /\ status = "idle"

C9_BoundaryNoOp ==
  [][ ( \/ act' = "next" /\ Len(sections) > 0
                         /\ currentSectionIndex = Len(sections) - 1
        \/ act' = "previous" /\ currentSectionIndex = 0 )
      => ( /\ currentSectionIndex' = currentSectionIndex
           /\ status' = status
           /\ currentRepeatCount' = currentRepeatCount
           /\ speakToken' = speakToken
           /\ fired' = << >> ) ]_vars

C9_Witness ==
  /\ act = "next" /\ Len(sections) = 2 /\ currentSectionIndex = 1
  /\ status = "playing" /\ speakToken >= 2

\* C10: on a 1-section list, play(); pause() while it is spoken; resume()
\* after the pause settled: the section is spoken twice with the same text,
\* and while the second speech runs the status is playing and the index is unchanged.
C10_PauseResumeRespeaks ==
  (scen = "PPR" /\ Len(sections) = 1) =>
    /\ \A k \in 1..Len(SpeakLog) : SpeakLog[k].text = sections[1].text
    /\ Quiescent => Len(SpeakLog) >= 2
    /\ speakToken = SpeakLog[1].i + 1 =>
         /\ Len(SpeakLog) <= 2
         /\ (Speaking \/ Pending(BeforeSpeak)) =>
              status = "playing" /\ currentSectionIndex = 0
         /\ Speaking => Len(SpeakLog) = 2

OptionSteps == {"uarStop", "uarApply", "rateStop"}
OptionCalls == {"setRate", "setPitch", "setVoice"}
C12_OptionKeepsStatus ==
  [][ /\ (status # "playing" /\ act' \in OptionCalls) =>
           /\ status' = status
           /\ Len(engine') <= Len(engine)
           /\ (rev = "expo" \/ ~isTtsInitialized) =>
                 (options'.rate \in Rates \/ options'.pitch \in Pitches
                    \/ options'.voice \in Voices)
      /\ ( /\ status # "playing"
           /\ act' \in OptionSteps
           /\ \E i \in 1..Len(tasks) : tasks[i].pc = act' /\ ~tasks[i].flag ) =>
           /\ status' = status
           /\ Len(engine') <= Len(engine)
           /\ (options'.rate \in Rates \/ options'.pitch \in Pitches
                 \/ options'.voice \in Voices) ]_vars

\* C13: stop() from any status clears the pause timer and takes a larger
\* token when it is called, and ends with status stopped, currentRepeatCount 0
\* and no pending pause timer.
C13_StopEndsStopped ==
  [][ /\ act' = "stop" =>
           speakToken' > speakToken /\ ~pauseAfterTimer'.pending
      /\ act' = "stopDone" =>
           /\ status' = "stopped"
           /\ currentRepeatCount' = 0
           /\ ~pauseAfterTimer'.pending
           /\ speakToken' >= speakToken ]_vars

\* a stop() that ended a repeat-mode session after three earlier tokens
C13_Witness ==
  /\ act = "stopDone" /\ status = "stopped" /\ speakToken > 3
  /\ currentRepeatCount = 0 /\ playMode = "repeat"
  /\ ~pauseAfterTimer.pending

\* what the service and the engine hold, without the observation variables
ServiceState ==
  <<sections, currentSectionIndex, status, options, playMode, currentRepeatCount,
    targetRepeatCount, speakToken, pauseAfterTimer, isTtsInitialized, retryCount,
    globalListeners, tasks, engine, inflight>>

C15_InvalidIndexNoOp ==
  [][ \A index \in -1..2 :
        ( /\ index < 0 \/ index >= Len(sections)
          /\ \E autoPlay \in BOOLEAN : GoToSection(index, autoPlay) )
        => ServiceState' = ServiceState /\ fired' = << >> ]_vars

\* a goToSection() during a speech that suspended no call: its index was
\* out of range
C15_Witness ==
  /\ act = "goToSection" /\ status = "playing" /\ Speaking
  /\ Len(sections) = 2 /\ currentSectionIndex = 1
  /\ \A i \in 1..Len(tasks) : tasks[i].pc # "gotoStop"

\* C16: next() / previous() with a neighbour and goToSection with a valid
\* index first clear the pause timer, take a new token and stop the engine;
\* when that stop has settled they set status stopped and the repeat count 0,
\* set currentSectionIndex to the target (the index at the call +1 / -1 for
\* next / previous), fire onSectionChange with it, and start play() only when
\* autoPlay was asked for; without autoPlay the call ends stopped, nothing spoken.
C16_GoToSectionOrder ==
  [][ /\ ( /\ act' \in {"goToSection", "next", "previous"}
           /\ Len(tasks') = Len(tasks) + 1 ) =>
           LET t == tasks'[Len(tasks')]
           IN /\ t.pc = "gotoStop"
              /\ ~pauseAfterTimer'.pending
              /\ speakToken' = speakToken + 1
              /\ engine' = << >>
              /\ currentSectionIndex' = currentSectionIndex
              /\ status' = status
              /\ fired' = << >>
              /\ t.index \in 0..(Len(sections) - 1)
              /\ act' = "next" => t.index = currentSectionIndex + 1 /\ t.flag
              /\ act' = "previous" => t.index = currentSectionIndex - 1 /\ t.flag
      /\ act' = "gotoStop" =>
           \A i \in 1..Len(tasks) : (tasks[i].pc = "gotoStop" /\ InTurn(i)) =>
             LET t == tasks[i]
             IN /\ currentSectionIndex' = t.index
                /\ currentRepeatCount' = 0
                /\ options.hasCallbacks => fired' = << <<"onSectionChange", t.index>> >>
                /\ ~t.flag => /\ status' = "stopped"
                              /\ speakToken' = speakToken
                              /\ engine' = engine
                              /\ Len(tasks') = Len(tasks) - 1
                /\ t.flag => \/ status' = "playing" /\ Len(tasks') + Len(engine') >= Len(tasks) + Len(engine)
                             \/ rev = "rn" /\ ~isTtsInitialized /\ status' = "stopped" ]_vars

\* goToSection(1, false) has ended during a session that had spoken
C16_Witness ==
  /\ act = "gotoStop" /\ status = "stopped" /\ currentSectionIndex = 1
  /\ fired = << <<"onSectionChange", 1>> >> /\ engine = << >> /\ tasks = << >>
  /\ speakToken >= 3 /\ currentRepeatCount = 0

\* C17: setPlayMode(mode, repeatCount?) in any status sets playMode, sets
\* currentRepeatCount to 0, sets targetRepeatCount only when a repeatCount is
\* passed, and leaves status, currentSectionIndex, speakToken, the pause
\* timer, the suspended calls and the engine as they were.
C17_SetPlayModeFrame ==
  [][ \A m \in SetModes :
        SetPlayMode(m[1], m[2]) =>
          /\ playMode' = m[1]
          /\ currentRepeatCount' = 0
          /\ targetRepeatCount' = (IF m[2] = Undefined THEN targetRepeatCount ELSE m[2])
          /\ status' = status
          /\ currentSectionIndex' = currentSectionIndex
          /\ speakToken' = speakToken
          /\ pauseAfterTimer' = pauseAfterTimer
          /\ tasks' = tasks /\ engine' = engine /\ inflight' = inflight
          /\ fired' = << >> ]_vars

\* setPlayMode('repeat', MaxRepeat) during a speech
C17_Witness ==
  /\ act = "setPlayMode" /\ status = "playing" /\ Speaking
  /\ playMode = "repeat" /\ targetRepeatCount = MaxRepeat /\ currentRepeatCount = 0
  /\ currentSectionIndex = 1

\* C18: initialize(sections, startIndex, options) in any status leaves status
\* idle, currentSectionIndex = startIndex, currentRepeatCount 0, the play mode
\* of the options, no pending pause timer and a larger speakToken; until the
\* new session starts a speech of its own, no engine event and no timer
\* changes its state or fires a callback.
C18_InitializeStartsFresh ==
  [][ /\ \A secs \in ControlLists, startIndex \in 0..2, m \in ControlModes :
           Initialize(secs, startIndex, m[1], m[2], defaultPauseSettings) =>
             /\ status' = "idle"
             /\ currentSectionIndex' = startIndex
             /\ currentRepeatCount' = 0
             /\ playMode' = m[1]
             /\ ~pauseAfterTimer'.pending
             /\ speakToken' > speakToken
      /\ (lastBump = "initialize" /\ act' \in {"deliver", "timer"}) =>
             /\ status' = status
             /\ currentSectionIndex' = currentSectionIndex
             /\ currentRepeatCount' = currentRepeatCount
             /\ playMode' = playMode
             /\ speakToken' = speakToken
             /\ ~pauseAfterTimer'.pending
             /\ fired' = << >> ]_vars

\* C19: while the session holds a non-empty section list, currentSectionIndex
\* is an index of the list or status is stopped.
C19_IndexInRange ==
  Len(sections) > 0 =>
    \/ currentSectionIndex \in 0..(Len(sections) - 1)
    \/ status = "stopped"

\* C20: speakToken never decreases; initialize(), stop(), cleanup(), a
\* play() that goes on to speak and an option change during playback each
\* leave it larger than it was; no two speaks are issued under one token.
C20_TokenOnlyGrows ==
  [][ /\ speakToken' >= speakToken
      /\ act' \in {"initialize", "stop", "cleanup"} => speakToken' > speakToken
      /\ ( /\ rev = "rn"
           /\ \E i \in 1..Len(tasks') :
                /\ tasks'[i].pc = "speakCurrent"
                /\ \A j \in 1..Len(tasks) : tasks[j].tok # tasks'[i].tok ) => speakToken' > speakToken
      /\ (rev = "expo" /\ BagCardinality(spoken') > BagCardinality(spoken)) =>
             speakToken' > speakToken
      /\ ( /\ act' \in OptionCalls /\ status = "playing"
           /\ rev = "expo" \/ isTtsInitialized ) => speakToken' > speakToken
      /\ \A tok \in BagToSet(spoken') : CopiesIn(tok, spoken') = 1 ]_vars

\* cleanup() has ended a session that had spoken, and the token is past the
\* ones the session used
C20_Witness ==
  /\ act \in {"cleanup", "cleanupStop"} /\ sections = << >> /\ status = "idle"
  /\ BagCardinality(spoken) >= 1 /\ speakToken >= 3
  /\ \A tok \in BagToSet(spoken) : tok < speakToken

\* C21: when a speak is issued no pause timer is pending; when stop() or
\* cleanup() has ended no pause timer is pending; the pause timer never fires
\* once a speak later than the one it was scheduled for has been issued.
C21_NoTimerAcrossSpeaks ==
  [][ /\ BagCardinality(spoken') > BagCardinality(spoken) => ~pauseAfterTimer'.pending
      /\ act' \in {"stop", "stopDone", "cleanup", "cleanupStop"} => ~pauseAfterTimer'.pending
      /\ act' = "timer" =>
           \A tok \in BagToSet(spoken) : tok <= pauseAfterTimer.tok ]_vars

\* C21 (amended): when stop() or cleanup() has ended no pause timer is
\* pending; a pause timer still pending when a speak is issued belongs to an
\* earlier token, and a pause timer that fires under a token other than its
\* own changes nothing and fires no callback.
C21_StaleTimerIsInert ==
  [][ /\ act' \in {"stop", "stopDone", "cleanup", "cleanupStop"} => ~pauseAfterTimer'.pending
      /\ ( /\ BagCardinality(spoken') > BagCardinality(spoken)
           /\ pauseAfterTimer'.pending ) => pauseAfterTimer'.tok < speakToken'
      /\ (act' = "timer" /\ pauseAfterTimer.tok # speakToken) =>
           /\ <<sections, currentSectionIndex, status, options, playMode,
                currentRepeatCount, targetRepeatCount, speakToken, tasks, engine,
                inflight>>' =
              <<sections, currentSectionIndex, status, options, playMode,
                currentRepeatCount, targetRepeatCount, speakToken, tasks, engine,
                inflight>>
           /\ ~pauseAfterTimer'.pending
           /\ fired' = << >> ]_vars

\* the pause timer of an earlier speak has fired while a later speak is spoken
C21_Witness ==
  /\ act = "timer" /\ ~pauseAfterTimer.pending /\ Speaking
  /\ pauseAfterTimer.tok \in BagToSet(spoken) /\ pauseAfterTimer.tok < speakToken
  /\ speakToken \in BagToSet(spoken) /\ status = "playing"

\* an error event of the speak of the current token is about to be delivered
\* and no automatic retry will take it up
TerminalError ==
  /\ Len(inflight) > 0
  /\ Head(inflight).type = "error"
  /\ Head(inflight).tok = speakToken
  /\ rev = "rn" => (~globalListeners \/ retryCount >= maxRetry)

\* the section play() takes up in the step: the one a new suspended call or
\* a new utterance carries
TakesUp(text) ==
  \/ /\ Len(tasks') = Len(tasks) + 1
     /\ tasks'[Len(tasks')].pc \in {"speakCurrent", "availCheck"}
     /\ tasks'[Len(tasks')].section.text = text
  \/ /\ BagCardinality(spoken') > BagCardinality(spoken)
     /\ engine'[Len(engine')].text = text

\* C22: a terminal error of the speak of the current token fires onError and
\* leaves status idle and currentSectionIndex as it was; a play() called next
\* takes up the current section again.
C22_TerminalErrorIdle ==
  [][ /\ (act' = "deliver" /\ TerminalError) =>
           /\ status' = "idle"
           /\ currentSectionIndex' = currentSectionIndex
           /\ options.hasCallbacks => \E k \in 1..Len(fired') : fired'[k][1] = "onError"
      /\ ( /\ act' = "play" /\ act = "deliver" /\ status = "idle"
           /\ \E k \in 1..Len(fired) : fired[k][1] = "onError" ) =>
           /\ status' = "playing"
           /\ currentSectionIndex' = currentSectionIndex
           /\ TakesUp(sections[currentSectionIndex + 1].text) ]_vars

\* C23: an engine error is retried automatically at most maxRetry times, and
\* the step that schedules a retry for an error fires no onError.
C23_NoErrorWhileRetrying ==
  [][ /\ retryCount' <= maxRetry
      /\ ( /\ act' = "deliver"
           /\ retryCount' > retryCount
           /\ \E i \in 1..Len(tasks') : tasks'[i].pc = "errFallback" ) =>
           \A k \in 1..Len(fired') : fired'[k][1] # "onError" ]_vars

\* C24: every speak a play() waits for settles, by the finish or by the error
\* of its utterance: once the engine holds no utterance and no event is on its
\* way, no play() is still waiting for the end of its speech.
C24_EveryWaitSettles ==
  (engine = << >> /\ inflight = << >>) =>
    \A i \in 1..Len(tasks) : tasks[i].pc # "wait"

\* the engine has started the speech of the latest play() and not ended it
ActivelySpeaking ==
  \E i \in 1..Len(engine) : engine[i].tok = speakToken /\ engine[i].started

\* C25: a play() called while the status is playing and the engine is speaking
\* does nothing: no engine speak or stop, no new token, no callback, the status
\* stays playing and the speech in progress and its events are kept.
C25_DuplicatePlayIsNoOp ==
  [][ ( /\ status = "playing" /\ ActivelySpeaking
        /\ \/ act' = "play"
           \/ act' = "dupCheck" /\ \E i \in 1..Len(tasks) :
                                      tasks[i].pc = "dupCheck" /\ tasks[i].flag /\ InTurn(i) ) =>
          /\ speakToken' = speakToken
          /\ engine' = engine
          /\ inflight' = inflight
          /\ spoken' = spoken
          /\ fired' = << >>
          /\ status' = "playing" ]_vars

----------------------------------------------------------------------------
(* Pacing: sessions that differ in the category of their section, in the   *)
(* rate and in the pause overrides passed to initialize                    *)

\* Section['type'] of types/chapter.ts and one value outside it
Categories == {"heading", "paragraph", "formula", "image_description", "list"}
\* the speeds the settings screen offers, in percent
PositiveRates == {50, 80, 100, 120, 150, 200}
\* the rate option of initialize: absent, 0, or a speed of the player screen
PacingRates == {Undefined, 0, 80, 120, 150}
NoOverrides ==
  [heading |-> Undefined, paragraph |-> Undefined, formula |-> Undefined,
   imageDescription |-> Undefined, default |-> Undefined]
\* options.pauseSettings replaces the defaults as a whole: the categories it
\* leaves out are undefined
PacingSettings ==
  {defaultPauseSettings, NoOverrides}
    \cup {[NoOverrides EXCEPT !.heading = v] : v \in {0, 2250}}
    \cup {[NoOverrides EXCEPT !.paragraph = v] : v \in {0, 2250}}
    \cup {[NoOverrides EXCEPT !.formula = v] : v \in {0, 2250}}
    \cup {[NoOverrides EXCEPT !.imageDescription = v] : v \in {0, 2250}}
    \cup {[NoOverrides EXCEPT !.default = v] : v \in {0, 2250}}

PacingHost ==
  \/ \E c \in Categories, r \in PacingRates, ps \in PacingSettings :
       /\ speakToken = 0
       /\ InitializeWith(<<[type |-> c, text |-> "A"]>>, 0, "single", Undefined, r, ps)
  \/ speakToken > 0 /\ Budget /\ Play
  \/ \E r \in Rates : speakToken > 0 /\ Budget /\ SetRate(r)

NextPacing == (HostReady /\ PacingHost) \/ System

SpecPacing == Init /\ [][NextPacing]_vars

\* the options of the service with another rate
AtRate(r) == [options |-> [options EXCEPT !.rate = r]]

\* C26: for the category and the pause settings of every session and every two
\* rates r2 > r1 > 0, the pause computed at r2 is at most the pause computed at
\* r1.
C26_FasterNeverPausesLonger ==
  \A k \in 1..Len(sections) : \A r1, r2 \in PositiveRates :
    r2 > r1 => getPauseTime(AtRate(r2), sections[k].type)
                 <= getPauseTime(AtRate(r1), sections[k].type)

\* a paragraph is being spoken at a rate above 1.0 and the pause that will
\* follow it is shorter than the one computed at rate 1.0
C26_Witness ==
  /\ options.rate > 100
  /\ sections # << >> /\ sections[1].type = "paragraph"
  /\ \E i \in 1..Len(engine) :
       /\ engine[i].tok = speakToken
       /\ engine[i].pauseAfter = getPauseTime(AtRate(options.rate), "paragraph")
       /\ engine[i].pauseAfter < getPauseTime(AtRate(100), "paragraph")

\* the base duration of a category: its override when supplied, else the
\* reference value
BaseOf(c, settings) ==
  CASE c = "heading" -> IF settings.heading # Undefined THEN settings.heading ELSE 1500
    [] c = "paragraph" -> IF settings.paragraph # Undefined THEN settings.paragraph ELSE 800
    [] c = "formula" -> IF settings.formula # Undefined THEN settings.formula ELSE 1200
    [] c = "image_description" ->
         IF settings.imageDescription # Undefined THEN settings.imageDescription ELSE 1000
    [] OTHER -> IF settings.default # Undefined THEN settings.default ELSE 500

\* p is base / rate rounded to the nearest integer, halves upwards
IsRounded(p, base, rate) ==
  /\ p \in Nat
  /\ 2 * 100 * base - rate < 2 * rate * p
  /\ 2 * rate * p <= 2 * 100 * base + rate

\* C27: the pause play() computes for the section it speaks, at a rate > 0, is
\* a non-negative integer equal to round(base / rate), base being the override
\* of the category when supplied and else 1500, 800, 1200, 1000 or 500.
C27_PauseIsRoundedQuotient ==
  [][ /\ ( /\ rev = "rn" /\ speakToken' > speakToken /\ Len(tasks') > 0
            /\ tasks'[Len(tasks')].pc = "speakCurrent"
            /\ tasks'[Len(tasks')].tok = speakToken'
            /\ options'.rate > 0 ) =>
              IsRounded(tasks'[Len(tasks')].pauseAfter,
                        BaseOf(tasks'[Len(tasks')].section.type, options'.pauseSettings),
                        options'.rate)
      /\ ( /\ rev = "expo" /\ BagCardinality(spoken') > BagCardinality(spoken)
            /\ options'.rate > 0 ) =>
              IsRounded(engine'[Len(engine')].pauseAfter,
                        BaseOf(sections'[currentSectionIndex' + 1].type,
                               options'.pauseSettings),
                        options'.rate) ]_vars

\* a heading whose override is 0 is spoken at rate 1.2: no pause follows it
C27_Witness ==
  /\ options.rate = 120
  /\ sections # << >> /\ sections[1].type = "heading"
  /\ options.pauseSettings.heading = 0
  /\ \E i \in 1..Len(engine) : engine[i].tok = speakToken /\ engine[i].pauseAfter = 0

\* C28: when the check of ensureAutoPlay finds the engine speaking or the
\* session paused, the run ends there: it makes no play() or resume(), takes
\* no token and leaves the status and the engine as they are.
C28_GuardSparesPausedSession ==
  [][ (act' = "guardCheck" /\ (status = "paused" \/ Len(engine) > 0)) =>
        /\ guard'.pc = "done"
        /\ guard'.attempts = 0
        /\ speakToken' = speakToken
        /\ status' = status
        /\ engine' = engine ]_vars

\* C29 as stated: with the screen reader on, a run of an autoplay timer makes
\* at most 2 play attempts, makes none after the engine was found speaking, and
\* once ended after an attempt has marked the screen as playing.
C29_AtMostTwoAttempts ==
  guard.sr =>
    /\ guard.attempts <= 2
    /\ guard.confirmed => guard.pc = "done"
    /\ (guard.pc = "done" /\ guard.attempts > 0) => guard.isPlaying = "playing"

\* C29 amended: at most 2 attempts in a run of ensureAutoPlay and at most 3 in
\* a run of the mount effect's autoplay timer.
C29_BoundedAttempts ==
  guard.sr =>
    /\ guard.attempts <= (IF guard.kind = "initial" THEN 3 ELSE 2)
    /\ guard.retry <= guard.attempts
    /\ guard.confirmed => guard.pc = "done"
    /\ (guard.pc = "done" /\ guard.attempts > 0) => guard.isPlaying = "playing"

\* a run of ensureAutoPlay with the screen reader on has ended after two
\* attempts, neither confirmed, and has marked the screen as playing
C29_Witness ==
  /\ guard.sr /\ guard.kind = "ensure" /\ guard.pc = "done"
  /\ guard.attempts = 2 /\ guard.retry = 2 /\ ~guard.confirmed
  /\ guard.isPlaying = "playing"

\* C30: when cleanup() has ended the service is as it was constructed: no
\* sections, index 0, status idle, mode single, repeat count 0, repeat target
\* 2, no options, no pause timer, retry count 0 and the engine listeners of the
\* constructor in place, so that a following initialize() and play() run as on
\* a new instance.
C30_CleanupRestoresDefaults ==
  [][ (act' = "cleanupStop" \/ (act' = "cleanup" /\ rev = "expo")) =>
        /\ sections' = << >>
        /\ currentSectionIndex' = 0
        /\ status' = "idle"
        /\ playMode' = "single"
        /\ currentRepeatCount' = 0
        /\ targetRepeatCount' = 2
        /\ options' = [rate |-> Undefined, pitch |-> Undefined, voice |-> "",
                       pauseSettings |-> defaultPauseSettings, hasCallbacks |-> FALSE]
        /\ ~pauseAfterTimer'.pending
        /\ retryCount' = 0
        /\ globalListeners' = (rev = "rn")
        /\ startListener' = (rev = "rn") ]_vars

\* C31: play() on an empty section list changes nothing: status, index, repeat
\* count and token stay, no engine call is made, no call is left suspended and
\* no callback is fired.
C31_PlayOnEmptyListIsNoOp ==
  [][ (act' = "play" /\ sections = << >>) =>
        /\ status' = status
        /\ currentSectionIndex' = currentSectionIndex
        /\ currentRepeatCount' = currentRepeatCount
        /\ speakToken' = speakToken
        /\ engine' = engine
        /\ inflight' = inflight
        /\ spoken' = spoken
        /\ tasks' = tasks
        /\ pauseAfterTimer' = pauseAfterTimer
        /\ fired' = << >> ]_vars

\* play() was called on the empty list that cleanup() left behind a session
C31_Witness ==
  /\ act = "play" /\ sections = << >> /\ status = "idle"
  /\ speakToken >= 2 /\ BagCardinality(spoken) >= 1 /\ engine = << >>

\* C32: in every state the rate the service has stored, once one is stored,
\* is greater than 0.
C32_StoredRatePositive ==
  options.rate # Undefined => options.rate > 0

\* a play() on its way to the engine at the step about to be taken has been
\* overtaken by stop(): the token it saw is past and stop() took the last one
Overtaken(pc) ==
  /\ lastBump = "stop"
  /\ \E i \in 1..Len(tasks) : tasks[i].pc = pc
  /\ \A i \in 1..Len(tasks) : tasks[i].pc = pc => tasks[i].tok < speakToken

\* C33: a play() that stop() has overtaken before its speak was issued or
\* acknowledged issues no speak, fires no onStart and leaves a status of
\* stopped as it is; and when no call is on its way any more, the status is stopped
\* and stop() was the last to take a token, the engine holds no utterance.
C33_StopWinsOverPendingPlay ==
  [][ /\ ( /\ act' \in {"speakCurrent", "speakIssued", "availCheck"}
           /\ Overtaken(act') ) =>
             /\ spoken' = spoken
             /\ status = "stopped" => status' = "stopped"
             /\ \A k \in 1..Len(fired') : fired'[k][1] # "onStart"
      /\ ( /\ status' = "stopped" /\ lastBump' = "stop"
           /\ \A i \in 1..Len(tasks') : tasks'[i].pc = "wait" ) =>
             engine' = << >> ]_vars

\* C34: once the player screen has unmounted, no timer it had set calls
\* play() or resume(): the steps of its autoplay timers make no attempt, take
\* no token, suspend no call and issue no speak.
C34_NoPlayAfterUnmount ==
  [][ (guard.unmounted /\ act' \in {"guardCheck", "guardInitial", "guardPlay"}) =>
        /\ guard'.attempts = guard.attempts
        /\ speakToken' = speakToken
        /\ tasks' = tasks
        /\ spoken' = spoken
        /\ status' = status ]_vars

\* C35: a pause() called from playing ends with status paused whether its
\* engine stop resolves or rejects, and no rejection leaves pause().
C35_PauseAlwaysEndsPaused ==
  [][ /\ act' # "pauseThrew"
      /\ act' = "pauseStop" => status' = "paused" ]_vars

\* the operations after which the repeat count is said to be 0, each at the
\* step where it has finished; a goToSection() that leaves the task list as it
\* was has returned at its range check
ResetPoint ==
  \/ act' \in {"stopDone", "gotoStop", "setPlayMode", "initialize", "cleanupStop"}
  \/ act' = "cleanup" /\ rev = "expo"

RepeatCountInRange ==
  /\ currentRepeatCount' = 0 \/ currentRepeatCount' < targetRepeatCount'
  /\ currentRepeatCount' # 0 => playMode' = "repeat"

\* C36 as stated: between operations the repeat count is 0 or below the
\* target, non-zero only in repeat mode, and 0 after every stop(),
\* goToSection(), setPlayMode(), initialize() and cleanup()
C36_RepeatCountZeroAfterEveryGoTo ==
  [][ /\ RepeatCountInRange
      /\ (ResetPoint \/ (act' = "goToSection" /\ tasks' = tasks))
           => currentRepeatCount' = 0 ]_vars

\* C36: between operations the repeat count is 0 or below the target and
\* non-zero only in repeat mode; it is 0 after every stop(), setPlayMode(),
\* initialize() and cleanup(), and after every goToSection() whose index is in
\* range
C36_RepeatCountDiscipline ==
  [][ /\ RepeatCountInRange
      /\ ResetPoint => currentRepeatCount' = 0 ]_vars

C36_Witness ==
  /\ playMode = "repeat"
  /\ currentRepeatCount > 0
  /\ currentRepeatCount = targetRepeatCount - 1
  /\ status = "playing"

\* what a step can change of the service and of the screen's state
Playback ==
  <<status, currentSectionIndex, currentRepeatCount, speakToken, tasks, engine,
    inflight, spoken, pauseAfterTimer, [screen EXCEPT !.last = "none"]>>

\* C37: in part_004 a firing of the play/pause trigger that arrives while an
\* earlier invocation of the handler is still running, or before the flag is
\* released 500 ms after it finished, issues no ttsService command, fires no
\* callback and changes no state; the flag is set throughout that time
C37_HandlerIsNonReentrant ==
  [][ /\ (rev = "expo" /\ screen'.pc # "idle") => screen'.isHandlingPlayPause
      /\ (act' = "trigger" /\ rev = "expo" /\ screen.pc # "idle")
           => /\ Playback' = Playback
              /\ fired' = << >> ]_vars

C37_Witness ==
  /\ act = "trigger"
  /\ rev = "expo"
  /\ screen.mounted
  /\ screen.pc = "release"
  /\ screen.last = "none"
  /\ status = "playing"

\* the firing is not dropped by the flag of part_004, and the handler that is
\* registered was made by the latest render
Responsive ==
  /\ screen.mounted
  /\ rev = "expo" => ~screen.isHandlingPlayPause /\ screen.closure = screen.isPlaying

\* C38: while the screen is mounted, a firing of the play/pause trigger
\* pauses when the player is playing and plays or resumes when it is not,
\* for the first and for every later firing; after unmount a firing does
\* nothing
C38_TriggerToggles ==
  [][ act' = "trigger" =>
        /\ (Responsive /\ screen.isPlaying /\ status = "playing")
             => screen'.last = "pause"
        /\ (Responsive /\ ~screen.isPlaying /\ status # "playing")
             => screen'.last \in {"play", "resume"}
        /\ ~screen.mounted => (Playback' = Playback /\ fired' = << >>) ]_vars

\* C39: after stop() or abort(), an 'end' or 'error' event of the recognizer
\* starts no session; and once no start() is pending, also when the stop()
\* came while one was awaiting, nothing is recognizing
C39_StopEndsRecognition ==
  [][ /\ (asr.halted /\ act' = "asrDeliver") => asr'.starts = asr.starts
      /\ (asr'.halted /\ asr'.calls = << >>)
           => (~asr'.recognizing /\ ~asr'.running) ]_vars

\* the event delivered next is a non-empty final result and the listener of
\* startVoiceCommandListening is subscribed
FirstResult ==
  /\ asr.events # << >>
  /\ asr.attached
  /\ provider.asrOff
  /\ Head(asr.events).type = "result"
  /\ Head(asr.events).final
  /\ Head(asr.events).text # {}

\* C40: the first non-empty final result ends listening (recognizer stopped,
\* listener unsubscribed, flag false) and invokes at most one handler, the
\* one registered for the current screen under the key parsed from the
\* result; a result delivered when no listener is subscribed invokes nothing;
\* startVoiceCommandListening() while listening subscribes nothing
C40_ListeningIsOneShot ==
  [][ /\ (act' = "asrDeliver" /\ FirstResult) =>
           /\ ~provider'.isVoiceCommandListening
           /\ ~provider'.asrOff
           /\ "voice" \notin asr'.listeners
           /\ ~asr'.recognizing
           /\ ~asr'.running
           /\ LET id == provider.currentScreenId
                  key == parseVoiceCommand(Head(asr.events).text)
              IN \/ provider'.invoked = provider.invoked
                 \/ /\ provider'.invoked = Append(provider.invoked, <<id, key>>)
                    /\ id \in DOMAIN voiceHandlers
                    /\ key \in voiceHandlers[id]
      /\ (act' = "asrDeliver" /\ ~provider.asrOff) => provider'.invoked = provider.invoked
      /\ (act' = "voiceStart" /\ provider.isVoiceCommandListening) =>
           (asr' = asr /\ provider' = provider) ]_vars

====
